---- MODULE Spec2Model ----
(***************************************************************************)
(* Ledger domain logic of src/lib/data.ts (the Supabase-backed data layer) *)
(* over the relational schema it runs on (books, categories, accounts,     *)
(* transactions, transaction_entries, recycle_bin), and the account pages  *)
(* of src/app/accounts/page.tsx that compute balances from it.  Every      *)
(* exported function is an operator from a database value to a result      *)
(* [db, err, val]; statements run in the order of the code and a statement *)
(* the schema rejects makes the function throw where handleError throws,   *)
(* keeping the writes that were already made.  err is the kind of the      *)
(* error thrown: StorageError stands for a statement rejected by the       *)
(* database, the other kinds for the messages the code throws itself.      *)
(* Amounts are whole currency units.  Row order inside a table is not      *)
(* modelled except for the entries of one transaction, which keep their    *)
(* insertion order; recycle_bin rows equal in every column but their       *)
(* generated id are one row.  Fresh ids are drawn from per-table counters. *)
(* The variable last records the function called last and how it ended.    *)
(* The variable creating holds the call of addTransaction that has written *)
(* its header and not yet its entries (pending, a set of one call at most) *)
(* and the entries each call was given (supplied);                         *)
(* only SpecCreate runs addTransaction in two steps.                       *)
(* The specifications share the actions and differ in the calls they make: *)
(* SpecEntries (the journal), SpecBin (the recycle bin), SpecAccounts (the *)
(* chart of accounts), SpecCategories, SpecAccountNames (names that must   *)
(* stay unique), SpecBooks (the book registry), SpecPurge (permanent       *)
(* deletion), SpecTransfers (transfers between books), SpecOpening         *)
(* (opening balances edited) and SpecCreate (addTransaction statement by   *)
(* statement).                                                             *)
(***************************************************************************)
EXTENDS Integers, Sequences, FiniteSets, TLC

\* ------------------------------------------------------------------ bounds
\* books addBook may create, accounts addAccount may create, transactions
\* addTransaction may create, clock instants, largest amount typed by a user,
\* categories addCategory may create, accounts created where names are compared,
\* transfers between books on top of the transactions (each writes up to two)
MaxBooks == 1
MaxAccounts == 1
MaxTxns == 2
MaxClock == 2
MaxAmount == 2
MaxCategories == 1
MaxNames == 2
MaxTransfers == 1

\* ------------------------------------------------------- program constants
DEFAULT_BOOK_ID == "book_default"
DEFAULT_BOOK_NAME == "CASHBOOK"
EQUITY_CATEGORY_NAME == "Equity"
OBE_ACCOUNT_NAME == "Opening Balance Equity"
OBE_PREFIX == "acc_opening_balance_equity_"
EQUITY_PREFIX == "cat_equity_"
\* SQL null / JS undefined of a text column, and of the numeric opening_balance
NULL == "null"
NoBalance == -1

VARIABLES books, categories, accounts, transactions, transaction_entries,
          recycle_bin, ids, now, last, creating

vars == <<books, categories, accounts, transactions, transaction_entries,
          recycle_bin, ids, now, last, creating>>

\* ------------------------------------------------------------- identifiers
generateId(prefix, n) == prefix \o "_" \o ToString(n)

BookIds == {DEFAULT_BOOK_ID} \cup {generateId("book", n) : n \in 1..MaxBooks}
AccountIds == {generateId("acc", n) : n \in 1..MaxAccounts}
TxnSlots == MaxTxns + 2 * MaxTransfers
TxnIds == {generateId("txn", n) : n \in 1..TxnSlots}
CategoryIds == {generateId("cat", n) : n \in 1..MaxCategories}

ObeId(bookId) == OBE_PREFIX \o bookId
EquityId(bookId) == EQUITY_PREFIX \o bookId

\* id.startsWith('acc_opening_balance_equity_') over the ids of the model
IsObeId(id) == \E b \in BookIds : id = ObeId(b)

\* id.startsWith('cat_equity_') over the ids of the model
IsEquityId(id) == \E b \in BookIds : id = EquityId(b)

DEFAULT_CATEGORY_SEEDS ==
    { [id |-> EquityId(DEFAULT_BOOK_ID), name |-> EQUITY_CATEGORY_NAME, book_id |-> DEFAULT_BOOK_ID],
      [id |-> "cat_cash_default", name |-> "Cash", book_id |-> DEFAULT_BOOK_ID],
      [id |-> "cat_capital_default", name |-> "Capital", book_id |-> DEFAULT_BOOK_ID],
      [id |-> "cat_party_default", name |-> "Parties", book_id |-> DEFAULT_BOOK_ID],
      [id |-> "cat_expense_default", name |-> "Expenses", book_id |-> DEFAULT_BOOK_ID] }

\* ------------------------------------------------------------------ strings
\* String.prototype.trim and lower() / toLowerCase() on the names of the model
Trim(str) ==
    CASE str = " Bank" -> "Bank"
      [] str = " " -> ""
      [] OTHER -> str

Lower(str) ==
    CASE str = "Bank" -> "bank"
      [] str = "Rent" -> "rent"
      [] str = "Side" -> "side"
      [] str = "Shop" -> "shop"
      [] str = "Cash" -> "cash"
      [] str = "Capital" -> "capital"
      [] str = "Parties" -> "parties"
      [] str = "Expenses" -> "expenses"
      [] str = "Equity" -> "equity"
      [] str = "CASHBOOK" -> "cashbook"
      [] str = "Opening Balance Equity" -> "opening balance equity"
      [] OTHER -> str

\* The string a LIKE pattern stands for: a backslash is the escape character and
\* makes the character after it literal.  No name of the model holds % or _.
LikeLiteral(pattern) ==
    CASE pattern = "a\\b" -> "ab"
      [] OTHER -> pattern

\* Postgres ILIKE
ILike(value, pattern) == Lower(value) = Lower(LikeLiteral(pattern))

\* an inverse that returns the side it was given
InverseType_same(type) == type

InverseType(type) == IF type = "debit" THEN "credit" ELSE "debit"

OpeningBalanceDescription(name) == "Opening Balance for " \o name

\* ----------------------------------------------------------------- database
Db ==
    [ books |-> books, categories |-> categories, accounts |-> accounts,
      transactions |-> transactions, transaction_entries |-> transaction_entries,
      recycle_bin |-> recycle_bin, ids |-> ids, now |-> now ]

EmptyDb ==
    [ books |-> {}, categories |-> {}, accounts |-> {}, transactions |-> {},
      transaction_entries |-> [t \in TxnIds |-> <<>>],
      recycle_bin |-> {}, ids |-> [book |-> 0, acc |-> 0, txn |-> 0, cat |-> 0], now |-> 1 ]

Ok(db, val) == [db |-> db, err |-> "ok", val |-> val]
Fail(db, kind) == [db |-> db, err |-> kind, val |-> "none"]

HasId(rows, id) == \E r \in rows : r.id = id
RowOf(rows, id) == CHOOSE r \in rows : r.id = id

\* The statements of the schema: each is one atomic insert or delete that either
\* applies or is rejected by a key, a foreign key, a unique index or a check.
insert_books(db, row) ==
    IF HasId(db.books, row.id)
    THEN [ok |-> FALSE, db |-> db]
    ELSE [ok |-> TRUE, db |-> [db EXCEPT !.books = @ \cup {row}]]

\* categories without the unique index on (book_id, lower(name))
CategoryRowsAccepted_noIndex(db, rows) ==
    /\ \A r \in rows : ~HasId(db.categories, r.id) /\ HasId(db.books, r.book_id)
    /\ \A r1, r2 \in rows : r1 # r2 => ~(r1.id = r2.id)

CategoryRowsAccepted(db, rows) ==
    /\ \A r \in rows : ~HasId(db.categories, r.id) /\ HasId(db.books, r.book_id)
    /\ \A r \in rows : \A c \in db.categories :
          ~(c.book_id = r.book_id /\ Lower(c.name) = Lower(r.name))
    /\ \A r1, r2 \in rows :
          r1 # r2 => ~(r1.id = r2.id) /\ ~(r1.book_id = r2.book_id /\ Lower(r1.name) = Lower(r2.name))

insert_categories(db, rows) ==
    IF CategoryRowsAccepted(db, rows)
    THEN [ok |-> TRUE, db |-> [db EXCEPT !.categories = @ \cup rows]]
    ELSE [ok |-> FALSE, db |-> db]

AccountRowAccepted(db, row) ==
    /\ ~HasId(db.accounts, row.id)
    /\ HasId(db.books, row.book_id)
    /\ HasId(db.categories, row.category_id)
    /\ row.opening_balance_type \in {NULL, "debit", "credit"}
    /\ \A a \in db.accounts : ~(a.book_id = row.book_id /\ Lower(a.name) = Lower(row.name))

insert_accounts(db, row) ==
    IF AccountRowAccepted(db, row)
    THEN [ok |-> TRUE, db |-> [db EXCEPT !.accounts = @ \cup {row}]]
    ELSE [ok |-> FALSE, db |-> db]

insert_transactions(db, row) ==
    IF /\ ~HasId(db.transactions, row.id)
       /\ HasId(db.books, row.book_id)
       /\ row.highlight \in {NULL, "yellow", "blue", "strikethrough"}
    THEN [ok |-> TRUE, db |-> [db EXCEPT !.transactions = @ \cup {row}]]
    ELSE [ok |-> FALSE, db |-> db]

\* entryRows: the entries of one transaction, in the order of the array
insert_transaction_entries(db, transactionId, entryRows) ==
    IF /\ HasId(db.transactions, transactionId)
       /\ \A i \in 1..Len(entryRows) :
            /\ HasId(db.accounts, entryRows[i].account_id)
            /\ entryRows[i].type \in {"debit", "credit"}
    THEN [ok |-> TRUE,
          db |-> [db EXCEPT !.transaction_entries[transactionId] = @ \o entryRows]]
    ELSE [ok |-> FALSE, db |-> db]

delete_transaction_entries(db, transactionId) ==
    IF transactionId \in TxnIds
    THEN [db EXCEPT !.transaction_entries[transactionId] = <<>>]
    ELSE db

\* delete from transactions where id in idSet; the entries go with them (cascade)
delete_transactions(db, idSet) ==
    [db EXCEPT !.transactions = {t \in @ : t.id \notin idSet},
               !.transaction_entries = [t \in TxnIds |-> IF t \in idSet THEN <<>> ELSE @[t]]]

AccountReferenced(db, accountId) ==
    \E t \in TxnIds : \E i \in 1..Len(db.transaction_entries[t]) :
        db.transaction_entries[t][i].account_id = accountId

\* delete from accounts where id in idSet; an entry on one of them restricts it
delete_accounts(db, idSet) ==
    IF \E a \in db.accounts : a.id \in idSet /\ AccountReferenced(db, a.id)
    THEN [ok |-> FALSE, db |-> db]
    ELSE [ok |-> TRUE, db |-> [db EXCEPT !.accounts = {a \in @ : a.id \notin idSet}]]

\* ------------------------------------------------------------------ mapping
mapBook(row) == [id |-> row.id, name |-> row.name]
mapCategory(row) == [id |-> row.id, name |-> row.name, bookId |-> row.book_id]

mapAccount(row) ==
    [ id |-> row.id, name |-> row.name, categoryId |-> row.category_id,
      bookId |-> row.book_id, openingBalance |-> row.opening_balance,
      openingBalanceType |-> row.opening_balance_type ]

mapTransactionEntry(row) ==
    [ accountId |-> row.account_id, amount |-> row.amount, type |-> row.type,
      description |-> row.description ]

EntryRow(entry) ==
    [ account_id |-> entry.accountId, amount |-> entry.amount, type |-> entry.type,
      description |-> entry.description ]

EntryRows(entries) == [i \in 1..Len(entries) |-> EntryRow(entries[i])]

mapEntries(rows) == [i \in 1..Len(rows) |-> mapTransactionEntry(rows[i])]

\* a transactions row with its embedded transaction_entries
mapTransaction(db, row) ==
    [ id |-> row.id, bookId |-> row.book_id, date |-> row.date,
      description |-> row.description, highlight |-> row.highlight,
      entries |-> mapEntries(db.transaction_entries[row.id]) ]

fetchTransactionsForBook(db, bookId) ==
    {mapTransaction(db, row) : row \in {t \in db.transactions : t.book_id = bookId}}

getTransactions(db, bookId) == fetchTransactionsForBook(db, bookId)

getAccounts(db, bookId) == {mapAccount(row) : row \in {a \in db.accounts : a.book_id = bookId}}

\* -------------------------------------------------------------- recycle bin
normalizeBinRow(db, item) ==
    [ entity_id |-> item.id, entity_type |-> item.type,
      payload |-> [deletedAt |-> db.now] @@ item,
      deleted_at |-> db.now ]

getRecycleBinItems(db) ==
    { [type |-> row.entity_type, deletedAt |-> row.deleted_at] @@ row.payload :
        row \in db.recycle_bin }

\* addToRecycleBin that writes nothing
addToRecycleBin_none(db, items) == db

\* items: the set of items of one call; an empty set writes nothing
addToRecycleBin(db, items) ==
    [db EXCEPT !.recycle_bin = @ \cup {normalizeBinRow(db, item) : item \in items}]

\* recycle_bin.delete().match({entity_id, entity_type, deleted_at})
delete_recycle_bin(db, entityId, entityType, deletedAt) ==
    [db EXCEPT !.recycle_bin =
        {row \in @ : ~(row.entity_id = entityId /\ row.entity_type = entityType
                        /\ row.deleted_at = deletedAt)}]

BinItem(item, type) == [type |-> type] @@ item

\* ------------------------------------------------------------------- books
ensureDefaultBook(db) ==
    IF db.books # {}
    THEN db
    ELSE LET withBook == insert_books(db, [id |-> DEFAULT_BOOK_ID, name |-> DEFAULT_BOOK_NAME]).db
             withSeeds == insert_categories(withBook, DEFAULT_CATEGORY_SEEDS).db
         IN insert_accounts(withSeeds,
                [ id |-> ObeId(DEFAULT_BOOK_ID), name |-> OBE_ACCOUNT_NAME,
                  category_id |-> EquityId(DEFAULT_BOOK_ID), book_id |-> DEFAULT_BOOK_ID,
                  opening_balance |-> NoBalance, opening_balance_type |-> NULL ]).db

getBooks(db) ==
    LET seeded == ensureDefaultBook(db)
    IN Ok(seeded, {mapBook(row) : row \in seeded.books})

ensureEquityCategory(db, bookId) ==
    IF HasId(db.categories, EquityId(bookId))
    THEN Ok(db, RowOf(db.categories, EquityId(bookId)))
    ELSE LET newCategory == [id |-> EquityId(bookId), name |-> EQUITY_CATEGORY_NAME, book_id |-> bookId]
             ins == insert_categories(db, {newCategory})
         IN IF ins.ok THEN Ok(ins.db, newCategory) ELSE Fail(db, "StorageError")

addBook(db, name) ==
    LET trimmed == Trim(name)
        book == [id |-> generateId("book", db.ids.book + 1), name |-> trimmed]
        withBook == insert_books(db, book)
        equityCategory == ensureEquityCategory(withBook.db, book.id)
        obeAccount ==
            [ id |-> ObeId(book.id), name |-> OBE_ACCOUNT_NAME,
              category_id |-> equityCategory.val.id, book_id |-> book.id,
              opening_balance |-> NoBalance, opening_balance_type |-> NULL ]
        withObe == insert_accounts(equityCategory.db, obeAccount)
    IN  IF trimmed = "" THEN Fail(db, "ValidationError")
        ELSE IF \E b \in db.books : ILike(b.name, trimmed) THEN Fail(db, "ConflictError")
        ELSE IF ~withBook.ok THEN Fail(db, "StorageError")
        ELSE IF equityCategory.err # "ok" THEN Fail(equityCategory.db, "StorageError")
        ELSE IF ~withObe.ok THEN Fail(equityCategory.db, "StorageError")
        ELSE Ok([withObe.db EXCEPT !.ids.book = @ + 1], mapBook(book))

getOpeningBalanceEquityAccount(db, bookId) ==
    IF HasId(db.accounts, ObeId(bookId))
    THEN Ok(db, mapAccount(RowOf(db.accounts, ObeId(bookId))))
    ELSE LET equityCategory == ensureEquityCategory(db, bookId)
             newAccount ==
                [ id |-> ObeId(bookId), name |-> OBE_ACCOUNT_NAME,
                  category_id |-> equityCategory.val.id, book_id |-> bookId,
                  opening_balance |-> NoBalance, opening_balance_type |-> NULL ]
             ins == insert_accounts(equityCategory.db, newAccount)
         IN IF equityCategory.err # "ok" THEN Fail(db, "StorageError")
            ELSE IF ~ins.ok THEN Fail(equityCategory.db, "StorageError")
            ELSE Ok(ins.db, mapAccount(newAccount))

updateBook(db, id, name) ==
    LET trimmed == Trim(name)
    IN  IF trimmed = "" THEN Fail(db, "ValidationError")
        ELSE Ok([db EXCEPT !.books = {IF b.id = id THEN [b EXCEPT !.name = trimmed] ELSE b : b \in @}],
                [id |-> id, name |-> trimmed])

\* a row outside the book holds on to a row of the book: an account of another
\* book in one of its categories, or an entry of another book's transaction on
\* one of its accounts
HeldFromOutside(db, id) ==
    \/ \E a \in db.accounts : \E c \in db.categories :
          a.book_id # id /\ a.category_id = c.id /\ c.book_id = id
    \/ \E t \in db.transactions : \E i \in 1..Len(db.transaction_entries[t.id]) :
          \E a \in db.accounts :
              t.book_id # id /\ db.transaction_entries[t.id][i].account_id = a.id /\ a.book_id = id

\* rows of the book hold on to each other: an account in a category of the
\* book, or an entry of one of its transactions on one of its accounts
HeldFromInside(db, id) ==
    \/ \E a \in db.accounts : \E c \in db.categories :
          a.book_id = id /\ a.category_id = c.id /\ c.book_id = id
    \/ \E t \in db.transactions : \E i \in 1..Len(db.transaction_entries[t.id]) :
          \E a \in db.accounts :
              t.book_id = id /\ db.transaction_entries[t.id][i].account_id = a.id /\ a.book_id = id

\* a delete of the book row that leaves the rows of the book where they are
delete_books_noCascade(db, id, restrictFirst) ==
    [ok |-> TRUE, db |-> [db EXCEPT !.books = {b \in @ : b.id # id}]]

\* delete from books where id = id.  The foreign keys on book_id cascade to the
\* categories, accounts and transactions of the book (and from the transactions
\* to their entries); the foreign keys accounts.category_id and
\* transaction_entries.account_id restrict.  A referencing row the cascade does
\* not remove always rejects the statement.  For referencing rows the same
\* cascade removes, the outcome depends on the order in which the database
\* fires the referential actions, which the schema does not fix: restrictFirst
\* is the order in which a restriction is checked while the row is still there.
delete_books(db, id, restrictFirst) ==
    IF ~HasId(db.books, id) THEN [ok |-> TRUE, db |-> db]
    ELSE IF HeldFromOutside(db, id) \/ (restrictFirst /\ HeldFromInside(db, id))
    THEN [ok |-> FALSE, db |-> db]
    ELSE LET gone == {t.id : t \in {x \in db.transactions : x.book_id = id}}
         IN [ok |-> TRUE,
             db |-> [db EXCEPT
                       !.books = {b \in @ : b.id # id},
                       !.categories = {c \in @ : c.book_id # id},
                       !.accounts = {a \in @ : a.book_id # id},
                       !.transactions = {t \in @ : t.book_id # id},
                       !.transaction_entries =
                           [t \in TxnIds |-> IF t \in gone THEN <<>> ELSE @[t]]]]

deleteBook(db, id, restrictFirst) ==
    LET found == {b \in db.books : b.id = id}
        book == CHOOSE b \in found : TRUE
        items ==
            {BinItem(mapBook(book), "book")}
            \cup {BinItem(tx, "transaction") : tx \in fetchTransactionsForBook(db, id)}
            \cup {BinItem(mapAccount(row), "account") : row \in {a \in db.accounts : a.book_id = id}}
            \cup {BinItem(mapCategory(row), "category") : row \in {c \in db.categories : c.book_id = id}}
        binned == addToRecycleBin(db, items)
        removed == delete_books(binned, id, restrictFirst)
    IN  IF id = DEFAULT_BOOK_ID THEN Fail(db, "ProtectedEntityError")
        ELSE IF found = {} THEN Fail(db, "NotFoundError")
        ELSE IF ~removed.ok THEN Fail(binned, "StorageError")
        ELSE Ok(removed.db, "none")

\* ------------------------------------------------------------ transactions
addTransaction(db, bookId, transaction) ==
    LET transactionId == generateId("txn", db.ids.txn + 1)
        row == [ id |-> transactionId, book_id |-> bookId, date |-> transaction.date,
                 description |-> transaction.description, highlight |-> transaction.highlight ]
        header == insert_transactions(db, row)
        entriesResult ==
            insert_transaction_entries(header.db, transactionId, EntryRows(transaction.entries))
    IN  IF ~header.ok THEN Fail(db, "StorageError")
        ELSE IF ~entriesResult.ok
             THEN Fail(delete_transactions(header.db, {transactionId}), "StorageError")
        ELSE Ok([entriesResult.db EXCEPT !.ids.txn = @ + 1],
                [ id |-> transactionId, bookId |-> bookId, date |-> transaction.date,
                  description |-> transaction.description, highlight |-> transaction.highlight,
                  entries |-> transaction.entries ])

\* addTransaction up to its first statement: the insert of the header
addTransaction_header(db, bookId, transaction) ==
    LET transactionId == generateId("txn", db.ids.txn + 1)
        row == [ id |-> transactionId, book_id |-> bookId, date |-> transaction.date,
                 description |-> transaction.description, highlight |-> transaction.highlight ]
        header == insert_transactions(db, row)
    IN  IF ~header.ok THEN Fail(db, "StorageError")
        ELSE Ok([header.db EXCEPT !.ids.txn = @ + 1], transactionId)

\* addTransaction from its second statement: the insert of the entries, and the
\* delete of the header when the insert is rejected
addTransaction_entries(db, transactionId, transaction) ==
    LET entriesResult ==
            insert_transaction_entries(db, transactionId, EntryRows(transaction.entries))
    IN  IF ~entriesResult.ok
        THEN Fail(delete_transactions(db, {transactionId}), "StorageError")
        ELSE Ok(entriesResult.db, "none")

\* updateTransaction without the delete of the stored entries
updateTransaction_append(db, bookId, id, transaction) ==
    LET updated ==
            [db EXCEPT !.transactions =
                { IF t.id = id /\ t.book_id = bookId
                  THEN [t EXCEPT !.date = transaction.date,
                                 !.description = transaction.description,
                                 !.highlight = transaction.highlight]
                  ELSE t : t \in @ }]
        recreated == insert_transaction_entries(updated, id, EntryRows(transaction.entries))
    IN  IF ~recreated.ok THEN Fail(updated, "StorageError")
        ELSE Ok(recreated.db,
                [ id |-> id, bookId |-> bookId, date |-> transaction.date,
                  description |-> transaction.description, highlight |-> transaction.highlight,
                  entries |-> transaction.entries ])

updateTransaction(db, bookId, id, transaction) ==
    LET updated ==
            [db EXCEPT !.transactions =
                { IF t.id = id /\ t.book_id = bookId
                  THEN [t EXCEPT !.date = transaction.date,
                                 !.description = transaction.description,
                                 !.highlight = transaction.highlight]
                  ELSE t : t \in @ }]
        cleared == delete_transaction_entries(updated, id)
        recreated == insert_transaction_entries(cleared, id, EntryRows(transaction.entries))
    IN  IF ~recreated.ok THEN Fail(cleared, "StorageError")
        ELSE Ok(recreated.db,
                [ id |-> id, bookId |-> bookId, date |-> transaction.date,
                  description |-> transaction.description, highlight |-> transaction.highlight,
                  entries |-> transaction.entries ])

updateTransactionHighlight(db, bookId, id, highlight) ==
    Ok([db EXCEPT !.transactions =
            { IF t.id = id /\ t.book_id = bookId THEN [t EXCEPT !.highlight = highlight] ELSE t :
                t \in @ }],
       "none")

\* deleteTransaction without the snapshot in the recycle bin
deleteTransaction_noBin(db, bookId, id) ==
    LET data == {t \in db.transactions : t.id = id /\ t.book_id = bookId}
    IN  IF data = {} THEN Fail(db, "NotFoundError")
        ELSE Ok(delete_transactions(db, {id}), "none")

deleteTransaction(db, bookId, id) ==
    LET data == {t \in db.transactions : t.id = id /\ t.book_id = bookId}
        row == CHOOSE t \in data : TRUE
        binned == addToRecycleBin(db, {BinItem(mapTransaction(db, row), "transaction")})
    IN  IF data = {} THEN Fail(db, "NotFoundError")
        ELSE Ok(delete_transactions(binned, {id}), "none")

Range(seq) == {seq[i] : i \in 1..Len(seq)}

\* deleteMultipleTransactions without the count check: deletes what it found
deleteMultipleTransactions_partial(db, bookId, transactionIds) ==
    LET data == {t \in db.transactions : t.book_id = bookId /\ t.id \in Range(transactionIds)}
        items == {BinItem(mapTransaction(db, row), "transaction") : row \in data}
    IN  Ok(delete_transactions(addToRecycleBin(db, items), Range(transactionIds)), "none")

deleteMultipleTransactions(db, bookId, transactionIds) ==
    LET data == {t \in db.transactions : t.book_id = bookId /\ t.id \in Range(transactionIds)}
        items == {BinItem(mapTransaction(db, row), "transaction") : row \in data}
    IN  IF Cardinality(data) # Len(transactionIds) THEN Fail(db, "NotFoundError")
        ELSE Ok(delete_transactions(addToRecycleBin(db, items), Range(transactionIds)), "none")

\* ------------------------------------------------------ restore and purge
\* restoreTransaction that re-inserts the header and forgets the entries
restoreTransaction_headerOnly(db, item) ==
    LET header ==
            insert_transactions(db,
                [ id |-> item.id, book_id |-> item.bookId, date |-> item.date,
                  description |-> item.description, highlight |-> item.highlight ])
    IN  IF ~header.ok THEN Fail(db, "StorageError") ELSE Ok(header.db, "none")

restoreTransaction(db, item) ==
    LET header ==
            insert_transactions(db,
                [ id |-> item.id, book_id |-> item.bookId, date |-> item.date,
                  description |-> item.description, highlight |-> item.highlight ])
        entries ==
            IF Len(item.entries) > 0
            THEN insert_transaction_entries(header.db, item.id, EntryRows(item.entries))
            ELSE [ok |-> TRUE, db |-> header.db]
    IN  IF ~header.ok THEN Fail(db, "StorageError")
        ELSE IF ~entries.ok THEN Fail(header.db, "StorageError")
        ELSE Ok(entries.db, "none")

restoreRow(db, item) ==
    LET ins ==
            CASE item.type = "book" ->
                    insert_books(db, [id |-> item.id, name |-> item.name])
              [] item.type = "category" ->
                    insert_categories(db, {[id |-> item.id, name |-> item.name, book_id |-> item.bookId]})
              [] item.type = "account" ->
                    insert_accounts(db,
                        [ id |-> item.id, name |-> item.name, category_id |-> item.categoryId,
                          book_id |-> item.bookId, opening_balance |-> item.openingBalance,
                          opening_balance_type |-> item.openingBalanceType ])
    IN  IF ins.ok THEN Ok(ins.db, "none") ELSE Fail(db, "StorageError")

restoreItem(db, item) ==
    LET restored ==
            IF item.type = "transaction" THEN restoreTransaction(db, item)
            ELSE IF item.type \in {"book", "category", "account"} THEN restoreRow(db, item)
            ELSE Fail(db, "ValidationError")
    IN  IF restored.err # "ok" THEN restored
        ELSE Ok(delete_recycle_bin(restored.db, item.id, item.type, item.deletedAt), "none")

deletePermanently(db, item) ==
    Ok(delete_recycle_bin(db, item.id, item.type, item.deletedAt), "none")

\* ----------------------------------------------------------------- accounts
OpeningBalanceEntries(accountId, obeId, amount, type) ==
    << [accountId |-> accountId, amount |-> amount, type |-> type, description |-> NULL],
       [accountId |-> obeId, amount |-> amount, type |-> InverseType(type), description |-> NULL] >>

addAccount(db, bookId, accountData) ==
    LET trimmedName == Trim(accountData.name)
        row == [ id |-> generateId("acc", db.ids.acc + 1), name |-> trimmedName,
                 category_id |-> accountData.categoryId, book_id |-> bookId,
                 opening_balance |-> accountData.openingBalance,
                 opening_balance_type |-> accountData.openingBalanceType ]
        ins == insert_accounts(db, row)
        created == [ins.db EXCEPT !.ids.acc = @ + 1]
        type == IF accountData.openingBalanceType = NULL THEN "debit"
                ELSE accountData.openingBalanceType
        obeAccount == getOpeningBalanceEquityAccount(created, bookId)
        opening ==
            addTransaction(obeAccount.db, bookId,
                [ date |-> db.now, description |-> OpeningBalanceDescription(trimmedName),
                  highlight |-> NULL,
                  entries |-> OpeningBalanceEntries(row.id, obeAccount.val.id,
                                                    accountData.openingBalance, type) ])
    IN  IF trimmedName = "" THEN Fail(db, "ValidationError")
        ELSE IF \E a \in db.accounts : a.book_id = bookId /\ ILike(a.name, trimmedName)
             THEN Fail(db, "ConflictError")
        ELSE IF ~ins.ok THEN Fail(db, "StorageError")
        ELSE IF accountData.openingBalance > 0
             THEN IF obeAccount.err # "ok" THEN Fail(obeAccount.db, "StorageError")
                  ELSE IF opening.err # "ok" THEN Fail(opening.db, "StorageError")
                  ELSE Ok(opening.db, mapAccount(row))
        ELSE Ok(created, mapAccount(row))

\* transactions of a listing that carry an entry on the account
RelatedTransactions(txs, accountId) ==
    {tx \in txs : \E i \in 1..Len(tx.entries) : tx.entries[i].accountId = accountId}

OpeningBalanceTxs(txs, account) ==
    {tx \in RelatedTransactions(txs, account.id) :
        tx.description = OpeningBalanceDescription(account.name)}

\* deleteAccount without the guard on the system account id
deleteAccount_unprotected(db, bookId, id) ==
    LET found == {a \in getAccounts(db, bookId) : a.id = id}
        account == CHOOSE a \in found : TRUE
        txs == fetchTransactionsForBook(db, bookId)
        relatedTransactions == RelatedTransactions(txs, id)
        openingBalanceTx == OpeningBalanceTxs(txs, account)
        cleaned ==
            IF openingBalanceTx # {}
            THEN deleteTransaction(db, bookId, (CHOOSE tx \in openingBalanceTx : TRUE).id)
            ELSE Ok(db, "none")
        binned == addToRecycleBin(cleaned.db, {BinItem(account, "account")})
        removed == delete_accounts(binned, {id})
    IN  IF found = {} THEN Fail(db, "NotFoundError")
        ELSE IF Cardinality(relatedTransactions) > (IF openingBalanceTx # {} THEN 1 ELSE 0)
             THEN Fail(db, "InvariantError")
        ELSE IF cleaned.err # "ok" THEN cleaned
        ELSE IF ~removed.ok THEN Fail(binned, "StorageError")
        ELSE Ok(removed.db, "none")

deleteAccount(db, bookId, id) ==
    LET found == {a \in getAccounts(db, bookId) : a.id = id}
        account == CHOOSE a \in found : TRUE
        txs == fetchTransactionsForBook(db, bookId)
        relatedTransactions == RelatedTransactions(txs, id)
        openingBalanceTx == OpeningBalanceTxs(txs, account)
        cleaned ==
            IF openingBalanceTx # {}
            THEN deleteTransaction(db, bookId, (CHOOSE tx \in openingBalanceTx : TRUE).id)
            ELSE Ok(db, "none")
        binned == addToRecycleBin(cleaned.db, {BinItem(account, "account")})
        removed == delete_accounts(binned, {id})
    IN  IF IsObeId(id) THEN Fail(db, "ProtectedEntityError")
        ELSE IF found = {} THEN Fail(db, "NotFoundError")
        ELSE IF Cardinality(relatedTransactions) > (IF openingBalanceTx # {} THEN 1 ELSE 0)
             THEN Fail(db, "InvariantError")
        ELSE IF cleaned.err # "ok" THEN cleaned
        ELSE IF ~removed.ok THEN Fail(binned, "StorageError")
        ELSE Ok(removed.db, "none")

\* the for loop of deleteMultipleAccounts over the listings read before it
RECURSIVE deleteAccountsLoop(_, _, _, _, _)
deleteAccountsLoop(db, bookId, accountList, txs, accountIds) ==
    IF accountIds = <<>> THEN Ok(db, "none")
    ELSE LET found == {a \in accountList : a.id = Head(accountIds)}
             account == CHOOSE a \in found : TRUE
             relatedTransactions == RelatedTransactions(txs, account.id)
             openingBalanceTx == OpeningBalanceTxs(txs, account)
             cleaned == deleteTransaction(db, bookId, (CHOOSE tx \in openingBalanceTx : TRUE).id)
         IN  IF found = {} THEN Fail(db, "NotFoundError")
             ELSE IF IsObeId(account.id) THEN Fail(db, "ProtectedEntityError")
             ELSE IF Cardinality(relatedTransactions) > (IF openingBalanceTx # {} THEN 1 ELSE 0)
                  THEN Fail(db, "InvariantError")
             ELSE IF openingBalanceTx = {}
                  THEN deleteAccountsLoop(db, bookId, accountList, txs, Tail(accountIds))
             ELSE IF cleaned.err # "ok" THEN cleaned
             ELSE deleteAccountsLoop(cleaned.db, bookId, accountList, txs, Tail(accountIds))

deleteMultipleAccounts(db, bookId, accountIds) ==
    LET accountList == getAccounts(db, bookId)
        checked == deleteAccountsLoop(db, bookId, accountList,
                                      fetchTransactionsForBook(db, bookId), accountIds)
        items == {BinItem(a, "account") : a \in {x \in accountList : x.id \in Range(accountIds)}}
        binned == addToRecycleBin(checked.db, items)
        removed == delete_accounts(binned, Range(accountIds))
    IN  IF checked.err # "ok" THEN checked
        ELSE IF ~removed.ok THEN Fail(binned, "StorageError")
        ELSE Ok(removed.db, "none")

\* update accounts set the four columns where id = accountId; the unique index
\* on (book_id, lower(name)), the foreign key of category_id and the check on
\* opening_balance_type apply to the new row
update_accounts(db, accountId, updatedRow) ==
    LET hit == {a \in db.accounts : a.id = accountId}
        New(a) == [a EXCEPT !.name = updatedRow.name,
                            !.category_id = updatedRow.category_id,
                            !.opening_balance = updatedRow.opening_balance,
                            !.opening_balance_type = updatedRow.opening_balance_type]
    IN  IF \E a \in hit :
              \/ ~HasId(db.categories, updatedRow.category_id)
              \/ updatedRow.opening_balance_type \notin {NULL, "debit", "credit"}
              \/ \E other \in db.accounts \ hit :
                    other.book_id = a.book_id /\ Lower(other.name) = Lower(updatedRow.name)
        THEN [ok |-> FALSE, db |-> db]
        ELSE [ok |-> TRUE,
              db |-> [db EXCEPT !.accounts = {IF a \in hit THEN New(a) ELSE a : a \in @}]]

\* data: the fields to change; NULL and NoBalance stand for a field left out
updateAccount(db, bookId, accountId, data) ==
    LET found == {a \in db.accounts : a.id = accountId /\ a.book_id = bookId}
        accountRow == CHOOSE a \in found : TRUE
        named == data.name # NULL /\ data.name # ""
        updatedRow ==
            [ name |-> IF data.name # NULL THEN data.name ELSE accountRow.name,
              category_id |-> IF data.categoryId # NULL THEN data.categoryId
                              ELSE accountRow.category_id,
              opening_balance |-> IF data.openingBalance # NoBalance THEN data.openingBalance
                                  ELSE accountRow.opening_balance,
              opening_balance_type |-> IF data.openingBalanceType # NULL
                                       THEN data.openingBalanceType
                                       ELSE accountRow.opening_balance_type ]
        upd == update_accounts(db, accountId, updatedRow)
        found_tx ==
            {tx \in RelatedTransactions(fetchTransactionsForBook(upd.db, bookId), accountId) :
                tx.description = OpeningBalanceDescription(accountRow.name)}
        openingBalanceTx == CHOOSE tx \in found_tx : TRUE
        newBalance == IF updatedRow.opening_balance # NoBalance THEN updatedRow.opening_balance
                      ELSE 0
        newType == IF updatedRow.opening_balance_type # NULL THEN updatedRow.opening_balance_type
                   ELSE "debit"
        obeAccount == getOpeningBalanceEquityAccount(upd.db, bookId)
        opening(date, highlight) ==
            [ date |-> date, description |-> OpeningBalanceDescription(updatedRow.name),
              highlight |-> highlight,
              entries |-> OpeningBalanceEntries(accountId, obeAccount.val.id, newBalance, newType) ]
        synced ==
            IF found_tx # {} /\ newBalance > 0
            THEN IF obeAccount.err # "ok" THEN obeAccount
                 ELSE updateTransaction(obeAccount.db, bookId, openingBalanceTx.id,
                                        opening(openingBalanceTx.date, openingBalanceTx.highlight))
            ELSE IF found_tx # {} /\ newBalance = 0
            THEN deleteTransaction(upd.db, bookId, openingBalanceTx.id)
            ELSE IF found_tx = {} /\ newBalance > 0
            THEN IF obeAccount.err # "ok" THEN obeAccount
                 ELSE addTransaction(obeAccount.db, bookId, opening(db.now, NULL))
            ELSE IF named /\ found_tx # {}
            THEN updateTransaction(upd.db, bookId, openingBalanceTx.id,
                    [ date |-> openingBalanceTx.date,
                      description |-> OpeningBalanceDescription(data.name),
                      highlight |-> openingBalanceTx.highlight,
                      entries |-> openingBalanceTx.entries ])
            ELSE Ok(upd.db, "none")
    IN  IF found = {} THEN Fail(db, "NotFoundError")
        ELSE IF /\ named /\ data.name # accountRow.name
                /\ \E a \in db.accounts :
                      a.book_id = bookId /\ a.id # accountId /\ ILike(a.name, data.name)
             THEN Fail(db, "ConflictError")
        ELSE IF ~upd.ok THEN Fail(db, "StorageError")
        ELSE IF synced.err # "ok" THEN Fail(synced.db, synced.err)
        ELSE Ok(synced.db,
                [ id |-> accountId, name |-> updatedRow.name,
                  categoryId |-> updatedRow.category_id, bookId |-> bookId,
                  openingBalance |-> updatedRow.opening_balance,
                  openingBalanceType |-> updatedRow.opening_balance_type ])

\* --------------------------------------------------------------- categories
getCategories(db, bookId) ==
    LET data == {c \in db.categories : c.book_id = bookId}
        seeded == insert_categories(db, DEFAULT_CATEGORY_SEEDS)
    IN  IF data = {} /\ bookId = DEFAULT_BOOK_ID
        THEN IF seeded.ok THEN Ok(seeded.db, {mapCategory(row) : row \in DEFAULT_CATEGORY_SEEDS})
             ELSE Fail(db, "StorageError")
        ELSE Ok(db, {mapCategory(row) : row \in data})

addCategory(db, bookId, name) ==
    LET trimmed == Trim(name)
        row == [id |-> generateId("cat", db.ids.cat + 1), name |-> trimmed, book_id |-> bookId]
        ins == insert_categories(db, {row})
    IN  IF trimmed = "" THEN Fail(db, "ValidationError")
        ELSE IF \E c \in db.categories : c.book_id = bookId /\ ILike(c.name, trimmed)
             THEN Fail(db, "ConflictError")
        ELSE IF ~ins.ok THEN Fail(db, "StorageError")
        ELSE Ok([ins.db EXCEPT !.ids.cat = @ + 1], mapCategory(row))

\* update categories set name where id and book_id match; the unique index on
\* (book_id, lower(name)) rejects a name another category of the book carries
update_categories(db, id, bookId, name) ==
    LET hit == {c \in db.categories : c.id = id /\ c.book_id = bookId}
    IN  IF \E c \in hit : \E d \in db.categories \ hit :
              d.book_id = c.book_id /\ Lower(d.name) = Lower(name)
        THEN [ok |-> FALSE, db |-> db]
        ELSE [ok |-> TRUE,
              db |-> [db EXCEPT !.categories =
                        {IF c \in hit THEN [c EXCEPT !.name = name] ELSE c : c \in @}]]

updateCategory(db, bookId, id, name) ==
    LET trimmed == Trim(name)
        upd == update_categories(db, id, bookId, trimmed)
    IN  IF trimmed = "" THEN Fail(db, "ValidationError")
        ELSE IF \E c \in db.categories : c.book_id = bookId /\ c.id # id /\ ILike(c.name, trimmed)
             THEN Fail(db, "ConflictError")
        ELSE IF ~upd.ok THEN Fail(db, "StorageError")
        ELSE Ok(upd.db, [id |-> id, name |-> trimmed, bookId |-> bookId])

\* delete from categories where id = id; an account in the category restricts it
delete_categories(db, id) ==
    IF \E a \in db.accounts : a.category_id = id
    THEN [ok |-> FALSE, db |-> db]
    ELSE [ok |-> TRUE, db |-> [db EXCEPT !.categories = {c \in @ : c.id # id}]]

deleteCategory(db, bookId, id) ==
    LET found == {c \in db.categories : c.id = id}
        categoryRow == CHOOSE c \in found : TRUE
        binned == addToRecycleBin(db, {BinItem(mapCategory(categoryRow), "category")})
        removed == delete_categories(binned, id)
    IN  IF IsEquityId(id) THEN Fail(db, "ProtectedEntityError")
        ELSE IF \E a \in db.accounts : a.book_id = bookId /\ a.category_id = id
             THEN Fail(db, "InvariantError")
        ELSE IF found = {} THEN Fail(db, "NotFoundError")
        ELSE IF ~removed.ok THEN Fail(binned, "StorageError")
        ELSE Ok(removed.db, "none")

\* ---------------------------------------------------------------- transfers
\* find-or-create of the category named like the source category in the target
\* book, with the second look after a failed create
resolveTargetCategory(db, targetBookId, sourceCategory, retry) ==
    LET targetCategories == getCategories(db, targetBookId)
        same(list) == {c \in list : Lower(c.name) = Lower(sourceCategory.name)}
        created == addCategory(targetCategories.db, targetBookId, sourceCategory.name)
        refreshed == getCategories(created.db, targetBookId)
    IN  IF targetCategories.err # "ok" THEN targetCategories
        ELSE IF same(targetCategories.val) # {}
             THEN Ok(targetCategories.db, CHOOSE c \in same(targetCategories.val) : TRUE)
        ELSE IF created.err = "ok" \/ ~retry THEN created
        ELSE IF refreshed.err # "ok" THEN refreshed
        ELSE IF same(refreshed.val) # {}
             THEN Ok(refreshed.db, CHOOSE c \in same(refreshed.val) : TRUE)
        ELSE created

\* find-or-create of the account named accountName in the target book
resolveTargetAccount(db, targetBookId, accountName, targetCategory, retry) ==
    LET same(d) == {a \in getAccounts(d, targetBookId) :
                        Lower(a.name) = Lower(accountName) /\ ~IsObeId(a.id)}
        created == addAccount(db, targetBookId,
                        [ name |-> accountName, categoryId |-> targetCategory.id,
                          openingBalance |-> NoBalance, openingBalanceType |-> NULL ])
    IN  IF same(db) # {} THEN Ok(db, CHOOSE a \in same(db) : TRUE)
        ELSE IF created.err = "ok" \/ ~retry THEN created
        ELSE IF same(created.db) # {} THEN Ok(created.db, CHOOSE a \in same(created.db) : TRUE)
        ELSE created

\* the value an await resolved to, from the one-element set that holds it
Only(set) == CHOOSE x \in set : TRUE

\* the closing step of both transfers: the transaction between the target
\* account and the equity account of the target book
postToTarget_inverse(db, targetBookId, targetAccount, amount, balanceType, description) ==
    LET obeAccount == getOpeningBalanceEquityAccount(db, targetBookId)
        posted ==
            addTransaction(obeAccount.db, targetBookId,
                [ date |-> db.now, description |-> description, highlight |-> NULL,
                  entries |-> OpeningBalanceEntries(targetAccount.id, obeAccount.val.id,
                                                    amount, InverseType(balanceType)) ])
    IN  IF obeAccount.err # "ok" THEN obeAccount
        ELSE IF posted.err # "ok" THEN posted
        ELSE Ok(posted.db, "none")

postToTarget(db, targetBookId, targetAccount, amount, balanceType, description) ==
    LET obeAccount == getOpeningBalanceEquityAccount(db, targetBookId)
        posted ==
            addTransaction(obeAccount.db, targetBookId,
                [ date |-> db.now, description |-> description, highlight |-> NULL,
                  entries |-> OpeningBalanceEntries(targetAccount.id, obeAccount.val.id,
                                                    amount, balanceType) ])
    IN  IF obeAccount.err # "ok" THEN obeAccount
        ELSE IF posted.err # "ok" THEN posted
        ELSE Ok(posted.db, "none")

transferOpeningBalance(db, sourceBookId, targetBookId, accountId, accountName, categoryId, amount, balanceType) ==
    Only({ IF sourceCategories.err # "ok" THEN sourceCategories
           ELSE IF ~HasId(sourceCategories.val, categoryId)
                THEN Fail(sourceCategories.db, "NotFoundError")
           ELSE Only({ IF targetCategory.err # "ok" THEN targetCategory
                       ELSE Only({ IF targetAccount.err # "ok" THEN targetAccount
                                   ELSE postToTarget(targetAccount.db, targetBookId,
                                                     targetAccount.val, amount, balanceType,
                                                     "OPENING BALANCE") :
                                   targetAccount \in
                                       {resolveTargetAccount(targetCategory.db, targetBookId,
                                                             accountName, targetCategory.val, TRUE)} }) :
                       targetCategory \in
                           {resolveTargetCategory(sourceCategories.db, targetBookId,
                                                  RowOf(sourceCategories.val, categoryId), TRUE)} }) :
           sourceCategories \in {getCategories(db, sourceBookId)} })

\* targetAccountOf without the lookup of the account named by targetAccountId
targetAccountOf_unchecked(db, targetBookId, sourceAccountName, sourceCategory, targetAccountId) ==
    IF targetAccountId # NULL THEN Ok(db, [id |-> targetAccountId])
    ELSE Only({ IF targetCategory.err # "ok" THEN targetCategory
                ELSE resolveTargetAccount(targetCategory.db, targetBookId, sourceAccountName,
                                          targetCategory.val, FALSE) :
                targetCategory \in
                    {resolveTargetCategory(db, targetBookId, sourceCategory, FALSE)} })

\* the target account of transferBalanceBetweenBooks: the one named by
\* targetAccountId, or the account named like the source account
targetAccountOf(db, targetBookId, sourceAccountName, sourceCategory, targetAccountId) ==
    LET given == {a \in getAccounts(db, targetBookId) : a.id = targetAccountId}
    IN  IF targetAccountId # NULL
        THEN IF given = {} THEN Fail(db, "NotFoundError") ELSE Ok(db, Only(given))
        ELSE Only({ IF targetCategory.err # "ok" THEN targetCategory
                    ELSE resolveTargetAccount(targetCategory.db, targetBookId, sourceAccountName,
                                              targetCategory.val, FALSE) :
                    targetCategory \in
                        {resolveTargetCategory(db, targetBookId, sourceCategory, FALSE)} })

\* transferBalanceBetweenBooks after the transaction in the source book
transferToTarget(db, sourceBookId, targetBookId, sourceAccountName, sourceCategoryId, amount, balanceType, targetAccountId) ==
    Only({ IF sourceCategories.err # "ok" THEN sourceCategories
           ELSE IF ~HasId(sourceCategories.val, sourceCategoryId)
                THEN Fail(sourceCategories.db, "NotFoundError")
           ELSE Only({ IF targetAccount.err # "ok" THEN targetAccount
                       ELSE postToTarget(targetAccount.db, targetBookId, targetAccount.val,
                                         amount, balanceType, "Transfer from another book") :
                       targetAccount \in
                           {targetAccountOf(sourceCategories.db, targetBookId, sourceAccountName,
                                            RowOf(sourceCategories.val, sourceCategoryId),
                                            targetAccountId)} }) :
           sourceCategories \in {getCategories(db, sourceBookId)} })

\* a transfer that accepts any pair of books and any amount
validTransfer_any(sourceBookId, targetBookId, amount) == TRUE

validTransfer(sourceBookId, targetBookId, amount) ==
    sourceBookId # targetBookId /\ amount > 0

\* targetAccountId: NULL when the caller leaves it out
transferBalanceBetweenBooks(db, sourceBookId, targetBookId, sourceAccountId, sourceAccountName, sourceCategoryId, amount, balanceType, targetAccountId) ==
    LET bookList == getBooks(db)
        targetBook == {b \in bookList.val : b.id = targetBookId}
        targetBookName == IF targetBook = {} THEN "Other book" ELSE Only(targetBook).name
        sourceObe == getOpeningBalanceEquityAccount(bookList.db, sourceBookId)
        reduced ==
            addTransaction(sourceObe.db, sourceBookId,
                [ date |-> db.now, description |-> "Transfer to " \o targetBookName,
                  highlight |-> NULL,
                  entries |->
                      << [ accountId |-> sourceAccountId, amount |-> amount,
                           type |-> InverseType(balanceType), description |-> NULL ],
                         [ accountId |-> sourceObe.val.id, amount |-> amount,
                           type |-> balanceType, description |-> NULL ] >> ])
    IN  IF ~validTransfer(sourceBookId, targetBookId, amount) THEN Fail(db, "ValidationError")
        ELSE IF sourceObe.err # "ok" THEN sourceObe
        ELSE Only({ IF source.err # "ok" THEN source
                    ELSE transferToTarget(source.db, sourceBookId, targetBookId,
                                          sourceAccountName, sourceCategoryId, amount,
                                          balanceType, targetAccountId) :
                    source \in {reduced} })

\* ------------------------------------------------------------ ledger pages
\* String.prototype.includes on the lowercased category names of the model
Includes(str, part) ==
    CASE part = "asset" -> str \in {"asset", "assets"}
      [] part = "expense" -> str \in {"expense", "expenses"}
      [] OTHER -> str = part

RECURSIVE SumOver(_, _)
SumOver(set, amountOf) ==
    IF set = {} THEN 0
    ELSE LET x == CHOOSE y \in set : TRUE
         IN amountOf[x] + SumOver(set \ {x}, amountOf)

RECURSIVE SumAmounts(_)
SumAmounts(entries) ==
    IF entries = <<>> THEN 0 ELSE Head(entries).amount + SumAmounts(Tail(entries))

\* transactions.flatMap(t => t.entries).filter(accountId and type).reduce(sum)
TotalOf(txs, accountId, type) ==
    LET OfTx(tx) ==
            SumAmounts(SelectSeq(tx.entries, LAMBDA e : e.accountId = accountId /\ e.type = type))
    IN SumOver(txs, [tx \in txs |-> OfTx(tx)])

\* the balance column of AllAccountsPage
accountBalance(txs, accountId) ==
    TotalOf(txs, accountId, "debit") - TotalOf(txs, accountId, "credit")

\* tx.entries.find(e => e.accountId === accountId)
FindEntry(tx, accountId) ==
    tx.entries[CHOOSE i \in 1..Len(tx.entries) :
                  /\ tx.entries[i].accountId = accountId
                  /\ \A j \in 1..(i - 1) : tx.entries[j].accountId # accountId]

\* the running balance after the last row of the ledger; the rows add up to the
\* same total in any order of equal dates
runningBalance(txs, accountId, normallyDebit) ==
    LET Row(tx) ==
            LET entry == FindEntry(tx, accountId)
                debit == IF entry.type = "debit" THEN entry.amount ELSE 0
                credit == IF entry.type = "credit" THEN entry.amount ELSE 0
            IN IF normallyDebit THEN debit - credit ELSE credit - debit
    IN SumOver(RelatedTransactions(txs, accountId),
               [tx \in RelatedTransactions(txs, accountId) |-> Row(tx)])

AccountLedgerPage(db, bookId, accountId) ==
    LET accountList == getAccounts(db, bookId)
        txs == getTransactions(db, bookId)
        categoryList == getCategories(db, bookId)
        found == {a \in accountList : a.id = accountId}
        account == CHOOSE a \in found : TRUE
        category == {c \in categoryList.val : c.id = account.categoryId}
        normallyDebit ==
            \E c \in category : \E t \in {"asset", "expense"} : Includes(Lower(c.name), t)
    IN  IF categoryList.err # "ok" THEN categoryList
        ELSE IF found = {} THEN Fail(categoryList.db, "NotFoundError")
        ELSE Ok(categoryList.db, runningBalance(txs, accountId, normallyDebit))

\* ------------------------------------------------------------------- inputs
Entry(accountId, amount, type) ==
    [accountId |-> accountId, amount |-> amount, type |-> type, description |-> NULL]

AccountIdInputs == AccountIds \cup {ObeId(b) : b \in BookIds}

\* the double entry the form accepts: a debit on a user account against an equal
\* credit on the equity account of the book
BalancedEntryLists(bookId) ==
    {<<Entry(a, 1, "debit"), Entry(ObeId(bookId), 1, "credit")>> : a \in AccountIds}

\* entry lists a caller of the data layer can pass: the balanced one, debit above
\* credit, two legs of amount zero, a single leg, and a balanced one with part
\* of the debit returned to the same account
EntryListInputs(bookId) ==
    {<<Entry(a, n, "debit"), Entry(ObeId(bookId), 1, "credit")>> : a \in AccountIds, n \in 1..MaxAmount}
    \cup {<<Entry(a, 0, "debit"), Entry(ObeId(bookId), 0, "credit")>> : a \in AccountIds}
    \cup {<<Entry(a, 1, "debit")>> : a \in AccountIds}
    \cup {<<Entry(a, MaxAmount, "debit"), Entry(a, 1, "credit"),
            Entry(ObeId(bookId), MaxAmount - 1, "credit")>> : a \in AccountIds}

TransactionOf(entries) ==
    [date |-> 1, description |-> "Groceries", highlight |-> NULL, entries |-> entries]

AccountNameInputs == {"Bank", " Bank", ""}

\* opening balance and side the account form submits: none, zero, or an amount
\* with the side left out, debit or credit
OpeningInputs ==
    { <<NoBalance, NULL>>, <<0, "debit">>, <<MaxAmount, NULL>>,
      <<MaxAmount, "debit">>, <<MaxAmount, "credit">> }

AccountDataInputs ==
    { [name |-> n, categoryId |-> "cat_cash_default", openingBalance |-> o[1],
       openingBalanceType |-> o[2]] : n \in AccountNameInputs, o \in OpeningInputs }

\* accounts without an opening balance, one in a credit-normal category and one
\* in a debit-normal category
PlainAccountInputs ==
    { [name |-> "Bank", categoryId |-> c, openingBalance |-> NoBalance,
       openingBalanceType |-> NULL] : c \in {"cat_cash_default", "cat_expense_default"} }

IdListInputs(idSet) ==
    {<<>>} \cup {<<a>> : a \in idSet} \cup {<<a, b>> : a \in idSet, b \in idSet}

BookNameInputs == {"Side", "Shop", ""}

CategoryIdInputs == CategoryIds \cup {"cat_cash_default", EquityId(DEFAULT_BOOK_ID)}

\* a new name, a name that differs from a seeded one in case only, a blank one
CategoryNameInputs == {"Rent", "cash", " "}

NamedAccountIds == {generateId("acc", n) : n \in 1..MaxNames}

\* account names: two that differ in case only and one with a backslash
NamedAccountInputs ==
    { [name |-> n, categoryId |-> "cat_cash_default", openingBalance |-> NoBalance,
       openingBalanceType |-> NULL] : n \in {"Bank", "bank", "a\\b"} }

\* an account in a seeded category or in the category a user created
CategorizedAccountInputs ==
    { [name |-> "Bank", categoryId |-> c, openingBalance |-> NoBalance,
       openingBalanceType |-> NULL] : c \in {"cat_cash_default"} \cup CategoryIds }

\* the rename form: the name alone is submitted
RenameInputs ==
    { [name |-> n, categoryId |-> NULL, openingBalance |-> NoBalance,
       openingBalanceType |-> NULL] : n \in {"bank", "a\\b"} }

\* an account named Bank without an opening balance, with a debit one and with
\* a credit one
OpeningAccountInputs ==
    { [name |-> "Bank", categoryId |-> "cat_cash_default", openingBalance |-> o[1],
       openingBalanceType |-> o[2]] :
         o \in {<<NoBalance, NULL>>, <<MaxAmount, "debit">>, <<MaxAmount, "credit">>} }

\* amounts of a transfer: none, part of a balance, a whole balance
AmountInputs == {0, 1, MaxAmount}

\* the target account picked in the dialog, or none for a new account
TargetAccountInputs(db, targetBookId) ==
    {NULL} \cup {a.id : a \in {x \in db.accounts : x.book_id = targetBookId /\ ~IsObeId(x.id)}}

\* the edit form of an account and calls that leave fields out: the name kept or
\* changed in case, the category kept or changed, the opening balance left out,
\* zero or positive, with or without a side
OpeningUpdateInputs ==
    { [name |-> n, categoryId |-> c, openingBalance |-> o[1], openingBalanceType |-> o[2]] :
         n \in {NULL, "bank"}, c \in {NULL, "cat_expense_default"},
         o \in {<<NoBalance, NULL>>, <<0, NULL>>, <<1, NULL>>, <<1, "credit">>,
                <<MaxAmount, "debit">>} }

\* ------------------------------------------------------------------ actions
Init ==
    /\ books = EmptyDb.books
    /\ categories = EmptyDb.categories
    /\ accounts = EmptyDb.accounts
    /\ transactions = EmptyDb.transactions
    /\ transaction_entries = EmptyDb.transaction_entries
    /\ recycle_bin = EmptyDb.recycle_bin
    /\ ids = EmptyDb.ids
    /\ now = EmptyDb.now
    /\ last = [op |-> "init", err |-> "ok"]
    /\ creating = [pending |-> {}, supplied |-> [t \in TxnIds |-> <<>>]]

\* the call returned r: its database is the state, its outcome the last result
Commit(op, r) ==
    /\ books' = r.db.books
    /\ categories' = r.db.categories
    /\ accounts' = r.db.accounts
    /\ transactions' = r.db.transactions
    /\ transaction_entries' = r.db.transaction_entries
    /\ recycle_bin' = r.db.recycle_bin
    /\ ids' = r.db.ids
    /\ now' = now
    /\ last' = [op |-> op, err |-> r.err]
    /\ creating' = creating

Tick ==
    /\ now < MaxClock
    /\ now' = now + 1
    /\ last' = [op |-> "tick", err |-> "ok"]
    /\ UNCHANGED <<books, categories, accounts, transactions, transaction_entries, recycle_bin,
                   ids, creating>>

GetBooks == Commit("getBooks", getBooks(Db))

AddBook(names) ==
    /\ ids.book < MaxBooks
    /\ \E name \in names : Commit("addBook", addBook(Db, name))

AddTransaction(entryLists) ==
    /\ ids.txn < MaxTxns
    /\ \E b \in BookIds : \E e \in entryLists[b] :
          Commit("addTransaction", addTransaction(Db, b, TransactionOf(e)))

UpdateTransaction(entryLists) ==
    \E b \in BookIds, id \in TxnIds : \E e \in entryLists[b] :
        Commit("updateTransaction", updateTransaction(Db, b, id, TransactionOf(e)))

UpdateTransactionHighlight ==
    \E b \in BookIds, id \in TxnIds, h \in {NULL, "yellow"} :
        Commit("updateTransactionHighlight", updateTransactionHighlight(Db, b, id, h))

DeleteTransaction ==
    \E b \in BookIds, id \in TxnIds : Commit("deleteTransaction", deleteTransaction(Db, b, id))

DeleteMultipleTransactions ==
    \E b \in BookIds, idList \in IdListInputs(TxnIds) :
        Commit("deleteMultipleTransactions", deleteMultipleTransactions(Db, b, idList))

RestoreItem ==
    \E item \in getRecycleBinItems(Db) : Commit("restoreItem", restoreItem(Db, item))

DeletePermanently ==
    \E item \in getRecycleBinItems(Db) : Commit("deletePermanently", deletePermanently(Db, item))

AddAccount(dataInputs) ==
    /\ ids.acc < MaxAccounts
    /\ \E b \in BookIds, data \in dataInputs :
          /\ data.openingBalance > 0 => ids.txn < MaxTxns
          /\ Commit("addAccount", addAccount(Db, b, data))

DeleteAccount ==
    \E b \in BookIds, id \in AccountIdInputs : Commit("deleteAccount", deleteAccount(Db, b, id))

DeleteMultipleAccounts ==
    \E b \in BookIds, idList \in IdListInputs(AccountIdInputs) :
        Commit("deleteMultipleAccounts", deleteMultipleAccounts(Db, b, idList))

ViewAccountLedger ==
    \E b \in BookIds, id \in AccountIdInputs :
        Commit("AccountLedgerPage", AccountLedgerPage(Db, b, id))

AddCategory(names) ==
    /\ ids.cat < MaxCategories
    /\ \E b \in BookIds, name \in names : Commit("addCategory", addCategory(Db, b, name))

UpdateCategory(names) ==
    \E b \in BookIds, id \in CategoryIdInputs, name \in names :
        Commit("updateCategory", updateCategory(Db, b, id, name))

DeleteCategory ==
    \E b \in BookIds, id \in CategoryIdInputs : Commit("deleteCategory", deleteCategory(Db, b, id))

AddNamedAccount ==
    /\ ids.acc < MaxNames
    /\ \E b \in BookIds, data \in NamedAccountInputs : Commit("addAccount", addAccount(Db, b, data))

UpdateAccount(idInputs, dataInputs) ==
    /\ ids.txn < MaxTxns
    /\ \E b \in BookIds, id \in idInputs, data \in dataInputs :
          Commit("updateAccount", updateAccount(Db, b, id, data))

DeleteNamedAccount ==
    \E b \in BookIds, id \in NamedAccountIds : Commit("deleteAccount", deleteAccount(Db, b, id))

\* the transfer dialog of a row of the account listing (which leaves out the
\* system accounts): its id, name and category, the amount and the side
TransferOpeningBalance(types) ==
    /\ ids.txn < MaxTxns
    /\ \E a \in {x \in accounts : ~IsObeId(x.id)} : \E target \in BookIds, type \in types :
          Commit("transferOpeningBalance",
                 transferOpeningBalance(Db, a.book_id, target, a.id, a.name, a.category_id,
                                        MaxAmount, type))

UpdateBook(names) ==
    \E id \in BookIds, name \in names : Commit("updateBook", updateBook(Db, id, name))

DeleteBook ==
    \E id \in BookIds, restrictFirst \in BOOLEAN :
        Commit("deleteBook", deleteBook(Db, id, restrictFirst))

\* transferBalanceToBookAction with the parameters of a call: the account and
\* its book, the target book, the target account (one of the target book, none,
\* or the source account itself, which the target book does not hold), the
\* amount, the side
TransferBalance ==
    /\ ids.txn + 2 <= TxnSlots
    /\ \E a \in {x \in accounts : ~IsObeId(x.id)} :
       \E target \in BookIds, amount \in AmountInputs, type \in {"debit", "credit"} :
       \E targetAccountId \in TargetAccountInputs(Db, target) \cup {a.id} :
          Commit("transferBalanceBetweenBooks",
                 transferBalanceBetweenBooks(Db, a.book_id, target, a.id, a.name, a.category_id,
                                             amount, type, targetAccountId))

\* the call returned r while a call of addTransaction may be between its two
\* statements
Store(op, r) ==
    /\ books' = r.db.books
    /\ categories' = r.db.categories
    /\ accounts' = r.db.accounts
    /\ transactions' = r.db.transactions
    /\ transaction_entries' = r.db.transaction_entries
    /\ recycle_bin' = r.db.recycle_bin
    /\ ids' = r.db.ids
    /\ now' = now
    /\ last' = [op |-> op, err |-> r.err]

\* addTransaction, first statement; other calls may run before the second
BeginAddTransaction(entryLists) ==
    /\ creating.pending = {}
    /\ ids.txn < MaxTxns
    /\ \E b \in BookIds : \E e \in entryLists[b] :
          LET r == addTransaction_header(Db, b, TransactionOf(e))
          IN /\ Store("addTransaction:header", r)
             /\ creating' = IF r.err # "ok" THEN creating
                            ELSE [pending |-> {[id |-> r.val, transaction |-> TransactionOf(e)]},
                                  supplied |-> [creating.supplied EXCEPT ![r.val] = e]]

\* addTransaction, second statement and the return or the throw
FinishAddTransaction ==
    /\ \E call \in creating.pending :
          Store("addTransaction", addTransaction_entries(Db, call.id, call.transaction))
    /\ creating' = [creating EXCEPT !.pending = {}]

\* ----------------------------------------------------------- specifications
\* the journal: transactions of any shape created and rewritten in two books
NextEntries ==
    \/ GetBooks
    \/ AddBook({"Side"})
    \/ AddAccount(PlainAccountInputs)
    \/ AddTransaction([b \in BookIds |-> EntryListInputs(b)])
    \/ UpdateTransaction([b \in BookIds |-> EntryListInputs(b)])
    \/ ViewAccountLedger

SpecEntries == Init /\ [][NextEntries]_vars

\* the recycle bin: balanced transactions deleted, restored and purged
NextBin ==
    \/ Tick
    \/ GetBooks
    \/ AddBook({"Side"})
    \/ AddAccount(PlainAccountInputs)
    \/ AddTransaction([b \in BookIds |-> BalancedEntryLists(b)])
    \/ UpdateTransactionHighlight
    \/ DeleteTransaction
    \/ DeleteMultipleTransactions
    \/ RestoreItem
    \/ DeletePermanently

SpecBin == Init /\ [][NextBin]_vars

\* the chart of accounts: accounts with opening balances created and deleted
NextAccounts ==
    \/ Tick
    \/ GetBooks
    \/ AddBook(BookNameInputs)
    \/ AddAccount(AccountDataInputs)
    \/ AddTransaction([b \in BookIds |-> BalancedEntryLists(b)])
    \/ DeleteAccount
    \/ DeleteMultipleAccounts

SpecAccounts == Init /\ [][NextAccounts]_vars

\* categories: created, renamed, deleted, restored and carried to another book,
\* with one account to own them
NextCategories ==
    \/ GetBooks
    \/ AddBook({"Side"})
    \/ AddCategory(CategoryNameInputs)
    \/ UpdateCategory(CategoryNameInputs)
    \/ DeleteCategory
    \/ AddAccount(CategorizedAccountInputs)
    \/ RestoreItem
    \/ TransferOpeningBalance({"debit"})

SpecCategories == Init /\ [][NextCategories]_vars

\* account names: accounts created, renamed, deleted, restored and carried to
\* another book
NextAccountNames ==
    \/ GetBooks
    \/ AddBook({"Side"})
    \/ AddNamedAccount
    \/ UpdateAccount(NamedAccountIds, RenameInputs)
    \/ DeleteNamedAccount
    \/ RestoreItem
    \/ TransferOpeningBalance({"debit"})

SpecAccountNames == Init /\ [][NextAccountNames]_vars

\* the book registry: books created, renamed, deleted with what they hold and
\* restored
NextBooks ==
    \/ GetBooks
    \/ AddBook(BookNameInputs)
    \/ UpdateBook({"Shop"})
    \/ DeleteBook
    \/ AddAccount(PlainAccountInputs)
    \/ AddTransaction([b \in BookIds |-> BalancedEntryLists(b)])
    \/ RestoreItem

SpecBooks == Init /\ [][NextBooks]_vars

\* purge: transactions and accounts deleted, restored and purged
NextPurge ==
    \/ GetBooks
    \/ AddAccount(PlainAccountInputs)
    \/ AddTransaction([b \in BookIds |-> BalancedEntryLists(b)])
    \/ DeleteTransaction
    \/ DeleteAccount
    \/ RestoreItem
    \/ DeletePermanently

SpecPurge == Init /\ [][NextPurge]_vars

\* transfers: balances carried from one book to another
NextTransfers ==
    \/ GetBooks
    \/ AddBook({"Side"})
    \/ AddAccount(OpeningAccountInputs)
    \/ TransferBalance
    \/ TransferOpeningBalance({"debit", "credit"})

SpecTransfers == Init /\ [][NextTransfers]_vars

\* opening balances: accounts created with a balance and edited, their opening
\* transactions deleted and restored
NextOpening ==
    \/ GetBooks
    \/ AddAccount(OpeningAccountInputs)
    \/ UpdateAccount(AccountIds, OpeningUpdateInputs)
    \/ DeleteTransaction
    \/ RestoreItem

SpecOpening == Init /\ [][NextOpening]_vars

\* transaction create statement by statement, with account deletes and reads
\* of the ledger between the statements
NextCreate ==
    \/ GetBooks
    \/ AddAccount(PlainAccountInputs)
    \/ BeginAddTransaction([b \in BookIds |-> EntryListInputs(b)])
    \/ FinishAddTransaction
    \/ DeleteAccount
    \/ ViewAccountLedger

SpecCreate == Init /\ [][NextCreate]_vars

\* soft delete: books, categories, accounts and transactions deleted, restored
\* and purged
NextRecycle ==
    \/ GetBooks
    \/ AddBook({"Side"})
    \/ AddAccount(OpeningAccountInputs)
    \/ DeleteTransaction
    \/ DeleteAccount
    \/ DeleteCategory
    \/ DeleteBook
    \/ RestoreItem
    \/ DeletePermanently

SpecRecycle == Init /\ [][NextRecycle]_vars

\* ------------------------------------------------------------------- claims
Abs(n) == IF n < 0 THEN 0 - n ELSE n

SideTotal(entries, type) == SumAmounts(SelectSeq(entries, LAMBDA e : e.type = type))

\* the double-entry rule: two entries or more, positive amounts, debits equal to
\* credits within 0.01 (amounts are whole units, so within one hundredth)
WellFormed(entries) ==
    /\ Len(entries) >= 2
    /\ \A i \in 1..Len(entries) : entries[i].amount > 0
    /\ Abs(SideTotal(entries, "debit") - SideTotal(entries, "credit")) * 100 <= 1

Stored(db) == <<db.transactions, db.transaction_entries>>

\* the call names a book that exists and accounts that exist: nothing but the
\* entries themselves, or the id, can be wrong with it
Referenced(bookId, entries) ==
    /\ HasId(books, bookId)
    /\ \A i \in 1..Len(entries) : HasId(accounts, entries[i].accountId)

\* C1: every transaction in primary storage has at least two entries, only
\* positive amounts, and debits equal to credits within 0.01.
C1_StoredTransactionsBalanced ==
    \A row \in transactions : WellFormed(mapTransaction(Db, row).entries)

\* C2: create and update called with fewer than two entries, an amount <= 0 or
\* unequal sides fail with ValidationError and leave the stored transactions and
\* entries unchanged.
C2_InvalidEntriesRejected ==
    \A b \in BookIds : \A e \in EntryListInputs(b) :
        (Referenced(b, e) /\ ~WellFormed(e)) =>
            /\ ids.txn < MaxTxns =>
                  LET r == addTransaction(Db, b, TransactionOf(e))
                  IN r.err = "ValidationError" /\ Stored(r.db) = Stored(Db)
            /\ \A id \in TxnIds :
                  LET r == updateTransaction(Db, b, id, TransactionOf(e))
                  IN r.err = "ValidationError" /\ Stored(r.db) = Stored(Db)

\* C3: update(bookId, id, data) fails with NotFoundError whenever no transaction
\* with that id exists in the book bookId, also when the id exists in another book.
C3_UpdateOutsideBookNotFound ==
    \A b \in BookIds, id \in TxnIds : \A e \in EntryListInputs(b) :
        (Referenced(b, e) /\ ~(\E t \in transactions : t.id = id /\ t.book_id = b)) =>
            updateTransaction(Db, b, id, TransactionOf(e)).err = "NotFoundError"

\* C4: after every successful create or update, the listing of the book holds
\* that transaction with exactly the entries that were written.
C4_ListingReturnsWrittenEntries ==
    \A b \in BookIds : \A e \in EntryListInputs(b) :
        /\ ids.txn < MaxTxns =>
              LET r == addTransaction(Db, b, TransactionOf(e))
              IN r.err = "ok" =>
                    \E t \in getTransactions(r.db, b) : t.id = r.val.id /\ t.entries = e
        /\ \A id \in TxnIds :
              LET r == updateTransaction(Db, b, id, TransactionOf(e))
              IN r.err = "ok" =>
                    \E t \in getTransactions(r.db, b) : t.id = id /\ t.entries = e

\* C7: for every account the final running balance of its ledger equals the
\* account balance, the sum of its debit entries minus the sum of its credit entries.
C7_LedgerEndsAtAccountBalance ==
    \A b \in BookIds, a \in AccountIdInputs :
        LET page == AccountLedgerPage(Db, b, a)
        IN page.err = "ok" => page.val = accountBalance(getTransactions(Db, b), a)

\* ---------------------------------------------------- claims, recycle bin
TxInBook(db, bookId, id) == \E t \in db.transactions : t.id = id /\ t.book_id = bookId

Repeats(idList) == \E i, j \in 1..Len(idList) : i # j /\ idList[i] = idList[j]

DeleteManyRefused(r) == r.err = "NotFoundError" /\ r.db = Db

\* every listed transaction left the table and is in the bin as it was stored;
\* the transactions not listed are untouched
DeleteManyApplied(r, idList) ==
    /\ r.err = "ok"
    /\ r.db.transactions = {t \in transactions : t.id \notin Range(idList)}
    /\ \A t \in r.db.transactions : r.db.transaction_entries[t.id] = transaction_entries[t.id]
    /\ \A id \in Range(idList) :
          \E item \in getRecycleBinItems(r.db) :
              /\ item.id = id /\ item.type = "transaction"
              /\ item.entries = mapTransaction(Db, RowOf(transactions, id)).entries

\* C5 as claimed: deleteMany fails with NotFoundError and changes nothing if an
\* id does not name a transaction of the book; otherwise every listed transaction
\* is removed and appears in the recycle bin.
C5_DeleteManyAllOrNothing ==
    \A b \in BookIds, idList \in IdListInputs(TxnIds) :
        LET r == deleteMultipleTransactions(Db, b, idList)
        IN IF \E id \in Range(idList) : ~TxInBook(Db, b, id)
           THEN DeleteManyRefused(r)
           ELSE DeleteManyApplied(r, idList)

\* C5 amended: deleteMany fails with NotFoundError and changes nothing if an id
\* does not name a transaction of the book or the list names an id twice;
\* otherwise every listed transaction is removed and appears in the recycle bin.
C5_DeleteManyDistinctAllOrNothing ==
    \A b \in BookIds, idList \in IdListInputs(TxnIds) :
        LET r == deleteMultipleTransactions(Db, b, idList)
        IN IF (\E id \in Range(idList) : ~TxInBook(Db, b, id)) \/ Repeats(idList)
           THEN DeleteManyRefused(r)
           ELSE DeleteManyApplied(r, idList)

\* a batch delete of two transactions has gone through
C5_Witness ==
    /\ last = [op |-> "deleteMultipleTransactions", err |-> "ok"]
    /\ transactions = {}
    /\ Cardinality({row \in recycle_bin : row.entity_type = "transaction" /\ row.deleted_at = now}) = 2

\* C6: delete takes the transaction out of the listing and puts it in the bin
\* with type 'transaction' and a deletedAt stamp; restoring that bin item puts
\* it back with the same id, book, date, description, highlight and entries and
\* takes it out of the bin.  The same holds for a bin item restored later.
C6_SoftDeleteRoundTrip ==
    /\ \A row \in transactions :
          LET tx == mapTransaction(Db, row)
              d == deleteTransaction(Db, row.book_id, row.id)
              items == {i \in getRecycleBinItems(d.db) : i.id = row.id}
          IN /\ d.err = "ok"
             /\ \A t \in getTransactions(d.db, row.book_id) : t.id # row.id
             /\ Cardinality(items) = 1
             /\ \A item \in items :
                   /\ item.type = "transaction"
                   /\ item.deletedAt = now
                   /\ LET r == restoreItem(d.db, item)
                      IN /\ r.err = "ok"
                         /\ tx \in getTransactions(r.db, row.book_id)
                         /\ \A i \in getRecycleBinItems(r.db) : i.id # row.id
    /\ \A item \in getRecycleBinItems(Db) :
          item.type = "transaction" =>
              LET r == restoreItem(Db, item)
              IN r.err = "ok" =>
                    /\ \E t \in getTransactions(r.db, item.bookId) :
                          /\ t.id = item.id /\ t.date = item.date
                          /\ t.description = item.description
                          /\ t.highlight = item.highlight /\ t.entries = item.entries
                    /\ item \notin getRecycleBinItems(r.db)

\* a highlighted transaction with entries is back after a delete and a restore
C6_Witness ==
    /\ last = [op |-> "restoreItem", err |-> "ok"]
    /\ ids.txn = 1
    /\ recycle_bin = {}
    /\ \E t \in transactions : t.highlight = "yellow" /\ Len(transaction_entries[t.id]) = 2

\* -------------------------------------------------------- claims, accounts
AllTransactions(db) == {mapTransaction(db, row) : row \in db.transactions}

\* C8: creating an account with openingBalance n > 0 and side t (debit when left
\* out) adds exactly one transaction, in that book, described 'Opening Balance
\* for <name>', with entries [{account, n, t}, {equity account of the book, n,
\* inverse of t}], and the balance of the account is then +n for debit, -n for
\* credit.
C8_OpeningBalanceTransaction ==
    \A b \in BookIds, data \in AccountDataInputs :
        (data.openingBalance > 0 /\ ids.txn < MaxTxns) =>
            LET r == addAccount(Db, b, data)
                n == data.openingBalance
                t == IF data.openingBalanceType = NULL THEN "debit" ELSE data.openingBalanceType
                new == AllTransactions(r.db) \ AllTransactions(Db)
            IN r.err = "ok" =>
                  /\ AllTransactions(Db) \subseteq AllTransactions(r.db)
                  /\ Cardinality(new) = 1
                  /\ \A tx \in new :
                        /\ tx.bookId = b
                        /\ tx.description = "Opening Balance for " \o r.val.name
                        /\ tx.entries =
                              << Entry(r.val.id, n, t),
                                 Entry(ObeId(b), n, IF t = "debit" THEN "credit" ELSE "debit") >>
                  /\ \E a \in r.db.accounts :
                        a.id = ObeId(b) /\ a.book_id = b /\ a.name = OBE_ACCOUNT_NAME
                  /\ accountBalance(getTransactions(r.db, b), r.val.id)
                        = IF t = "debit" THEN n ELSE 0 - n

\* an account was created with a credit opening balance
C8_Witness ==
    /\ last = [op |-> "addAccount", err |-> "ok"]
    /\ \E a \in accounts : \E tx \in AllTransactions(Db) :
          /\ a.opening_balance = MaxAmount /\ a.opening_balance_type = "credit"
          /\ tx.description = "Opening Balance for " \o a.name
          /\ tx.entries[1] = Entry(a.id, MaxAmount, "credit")

\* C9: deleteAccount on an account whose only transaction is its own opening
\* balance transaction succeeds and removes the account and that transaction;
\* deleteAccount on an account that appears in any other transaction fails with
\* InvariantError.
C9_DeleteAccountRule ==
    \A a \in accounts :
        ~IsObeId(a.id) =>
            LET related == RelatedTransactions(AllTransactions(Db), a.id)
                own == {tx \in related : tx.bookId = a.book_id
                                          /\ tx.description = "Opening Balance for " \o a.name}
                r == deleteAccount(Db, a.book_id, a.id)
            IN /\ (related = own /\ Cardinality(own) = 1) =>
                      /\ r.err = "ok"
                      /\ ~HasId(r.db.accounts, a.id)
                      /\ \A tx \in own : ~HasId(r.db.transactions, tx.id)
               /\ (related \ own # {}) => r.err = "InvariantError"

\* C10 as claimed: every attempt to delete the Opening Balance Equity account of
\* a book, through deleteAccount or deleteMultipleAccounts, fails with
\* ProtectedEntityError and the account remains.
C10_SystemAccountProtected ==
    \A b \in BookIds, x \in BookIds :
        HasId(accounts, ObeId(x)) =>
            /\ LET r == deleteAccount(Db, b, ObeId(x))
               IN r.err = "ProtectedEntityError" /\ HasId(r.db.accounts, ObeId(x))
            /\ \A idList \in IdListInputs(AccountIdInputs) :
                  ObeId(x) \in Range(idList) =>
                      LET r == deleteMultipleAccounts(Db, b, idList)
                      IN r.err = "ProtectedEntityError" /\ HasId(r.db.accounts, ObeId(x))

\* C10 amended: deleteAccount on an Opening Balance Equity account fails with
\* ProtectedEntityError and changes nothing; deleteMultipleAccounts on a list
\* that names one fails with ProtectedEntityError, NotFoundError or
\* InvariantError, with ProtectedEntityError and no change when the system
\* account of the given book heads the list; the system account remains.
C10_SystemAccountRemains ==
    \A b \in BookIds, x \in BookIds :
        HasId(accounts, ObeId(x)) =>
            /\ LET r == deleteAccount(Db, b, ObeId(x))
               IN r.err = "ProtectedEntityError" /\ r.db = Db
            /\ \A idList \in IdListInputs(AccountIdInputs) :
                  ObeId(x) \in Range(idList) =>
                      LET r == deleteMultipleAccounts(Db, b, idList)
                      IN /\ r.err \in {"ProtectedEntityError", "NotFoundError", "InvariantError"}
                         /\ RowOf(accounts, ObeId(x)) \in r.db.accounts
                         /\ (Head(idList) = ObeId(b) /\ x = b /\ RowOf(accounts, ObeId(x)).book_id = b) =>
                                (r.err = "ProtectedEntityError" /\ r.db = Db)

\* a batch delete that names the system account of its book was refused
C10_Witness ==
    /\ last = [op |-> "deleteMultipleAccounts", err |-> "ProtectedEntityError"]
    /\ \E b \in BookIds : HasId(accounts, ObeId(b))
    /\ \E a \in accounts : ~IsObeId(a.id)

\* ------------------------------------------------------ claims, categories
\* the recycle_bin rows a call added
NewBinRows(r) == r.db.recycle_bin \ recycle_bin

\* C11: deleteCategory on a category that owns at least one account fails with
\* InvariantError and the category stays in primary storage; on a category with
\* no accounts it succeeds, removes the category from primary storage and adds
\* one recycle-bin item of type 'category'.  (The system category Equity is not
\* deletable at all and is left out.)
C11_DeleteCategoryRule ==
    \A c \in categories :
        ~IsEquityId(c.id) =>
            LET r == deleteCategory(Db, c.book_id, c.id)
            IN IF \E a \in accounts : a.category_id = c.id
               THEN r.err = "InvariantError" /\ c \in r.db.categories
               ELSE /\ r.err = "ok"
                    /\ ~HasId(r.db.categories, c.id)
                    /\ Cardinality(NewBinRows(r)) = 1
                    /\ \A row \in NewBinRows(r) :
                          row.entity_type = "category" /\ row.entity_id = c.id

\* --------------------------------------------------- claims, account names
\* another account of the book carries the name, ignoring case
NameTaken(bookId, exceptId, name) ==
    \E a \in accounts : a.book_id = bookId /\ a.id # exceptId /\ Lower(a.name) = Lower(name)

\* C12: no two accounts of one book have names that are equal ignoring case,
\* and a create or a rename that would collide fails with ConflictError.
C12_AccountNamesUnique ==
    /\ \A a1, a2 \in accounts :
          (a1.id # a2.id /\ a1.book_id = a2.book_id) => Lower(a1.name) # Lower(a2.name)
    /\ \A b \in BookIds, data \in NamedAccountInputs :
          NameTaken(b, NULL, Trim(data.name)) => addAccount(Db, b, data).err = "ConflictError"
    /\ \A a \in accounts, data \in RenameInputs :
          (ids.txn < MaxTxns /\ NameTaken(a.book_id, a.id, data.name)) =>
              updateAccount(Db, a.book_id, a.id, data).err = "ConflictError"

\* ---------------------------------------------------- claims, category names
\* C13: no two categories of one book have names that are equal ignoring case,
\* whatever categories were created, renamed, deleted, restored or created by a
\* transfer.
C13_CategoryNamesUnique ==
    \A c1, c2 \in categories :
        (c1.id # c2.id /\ c1.book_id = c2.book_id) => Lower(c1.name) # Lower(c2.name)

\* a deleted category was not restored because another category of its book
\* has taken its name in the meantime
C13_Witness ==
    /\ last = [op |-> "restoreItem", err |-> "StorageError"]
    /\ \E row \in recycle_bin : \E c \in categories :
          /\ row.entity_type = "category" /\ ~HasId(categories, row.entity_id)
          /\ c.book_id = row.payload.bookId /\ Lower(c.name) = Lower(row.payload.name)

\* ------------------------------------------------------------ claims, books
\* the accounts of a book that carry the id prefix of the system account
SystemAccounts(bookId) == {a \in accounts : a.book_id = bookId /\ IsObeId(a.id)}

\* C14: every book in primary storage has exactly one Opening Balance Equity
\* account, with id acc_opening_balance_equity_<bookId> and the bookId of that
\* book, also after the book was created, deleted and restored from the bin.
C14_EveryBookHasSystemAccount ==
    \A b \in books :
        /\ Cardinality(SystemAccounts(b.id)) = 1
        /\ \A a \in SystemAccounts(b.id) : a.id = ObeId(b.id)

\* C15: once the book registry has been queried, the book 'book_default'
\* exists in every later state: deleteBook('book_default') always fails with
\* ProtectedEntityError, and no sequence of operations removes the default book
\* or leaves the registry without it.
\* Step by step: a query of the registry ends with the default book stored, and
\* a step that starts with the default book stored ends with it stored.
C15_DefaultBookAlwaysExists ==
    [][ /\ \A restrictFirst \in BOOLEAN :
              LET r == deleteBook(Db, DEFAULT_BOOK_ID, restrictFirst)
              IN r.err = "ProtectedEntityError" /\ r.db = Db
        /\ last'.op = "getBooks" => HasId(books', DEFAULT_BOOK_ID)
        /\ HasId(books, DEFAULT_BOOK_ID) => HasId(books', DEFAULT_BOOK_ID) ]_vars

\* the recycle bin holds an item of the type for the entity
Binned(db, type, id) ==
    \E item \in getRecycleBinItems(db) : item.type = type /\ item.id = id

\* C19: after a successful deleteBook(b), primary storage holds neither the
\* book nor any category, account or transaction whose bookId is b, and the
\* recycle bin holds one item for the book and one for each of them.
C19_DeleteBookCascades ==
    \A b \in BookIds, restrictFirst \in BOOLEAN :
        LET r == deleteBook(Db, b, restrictFirst)
        IN r.err = "ok" =>
              /\ ~HasId(r.db.books, b)
              /\ \A c \in r.db.categories : c.book_id # b
              /\ \A a \in r.db.accounts : a.book_id # b
              /\ \A t \in r.db.transactions : t.book_id # b
              /\ Binned(r.db, "book", b)
              /\ \A c \in categories : c.book_id = b => Binned(r.db, "category", c.id)
              /\ \A a \in accounts : a.book_id = b => Binned(r.db, "account", a.id)
              /\ \A t \in transactions : t.book_id = b => Binned(r.db, "transaction", t.id)
              /\ Cardinality(NewBinRows(r)) <=
                    1 + Cardinality({c \in categories : c.book_id = b})
                      + Cardinality({a \in accounts : a.book_id = b})
                      + Cardinality({t \in transactions : t.book_id = b})

\* a book was deleted with its category, its two accounts and a transaction
C19_Witness ==
    /\ last = [op |-> "deleteBook", err |-> "ok"]
    /\ ~HasId(books, generateId("book", 1))
    /\ Binned(Db, "book", generateId("book", 1))
    /\ Binned(Db, "category", EquityId(generateId("book", 1)))
    /\ Binned(Db, "account", ObeId(generateId("book", 1)))
    /\ \E item \in getRecycleBinItems(Db) :
          item.type = "account" /\ ~IsObeId(item.id) /\ item.bookId = generateId("book", 1)
    /\ \E item \in getRecycleBinItems(Db) :
          item.type = "transaction" /\ item.bookId = generateId("book", 1)
    /\ \A c \in categories : c.book_id # generateId("book", 1)
    /\ \A a \in accounts : a.book_id # generateId("book", 1)
    /\ \A t \in transactions : t.book_id # generateId("book", 1)

\* ------------------------------------------------------------ claims, purge
Primary(db) == <<db.books, db.categories, db.accounts, db.transactions, db.transaction_entries>>

\* the entity a recycle-bin item is the snapshot of is in primary storage
InPrimary(db, item) ==
    CASE item.type = "book" -> HasId(db.books, item.id)
      [] item.type = "category" -> HasId(db.categories, item.id)
      [] item.type = "account" -> HasId(db.accounts, item.id)
      [] item.type = "transaction" -> HasId(db.transactions, item.id)
      [] OTHER -> FALSE

\* C20: purge(item) removes the matching recycle-bin entry and changes nothing
\* in primary storage; after it the entity is in neither the recycle bin nor
\* primary storage and no restore can bring it back.
C20_PurgeIsTerminal ==
    \A item \in getRecycleBinItems(Db) :
        LET r == deletePermanently(Db, item)
        IN /\ r.err = "ok"
           /\ item \notin getRecycleBinItems(r.db)
           /\ Primary(r.db) = Primary(Db)
           /\ ~Binned(r.db, item.type, item.id)
           /\ ~InPrimary(r.db, item)
           /\ \A other \in getRecycleBinItems(r.db) :
                 ~InPrimary(restoreItem(r.db, other).db, item)

\* -------------------------------------------------------- claims, transfers
\* C16: transferBalanceBetweenBooks called with sourceBook = targetBook or with
\* amount <= 0 fails with ValidationError before any write: no transaction,
\* account or category is created in either book.
C16_InvalidTransferRejected ==
    \A a \in accounts, target \in BookIds, amount \in AmountInputs, type \in {"debit", "credit"} :
    \A targetAccountId \in TargetAccountInputs(Db, target) :
        (a.book_id = target \/ amount <= 0) =>
            LET r == transferBalanceBetweenBooks(Db, a.book_id, target, a.id, a.name,
                                                 a.category_id, amount, type, targetAccountId)
            IN r.err = "ValidationError" /\ r.db = Db

\* a transfer was refused for its input while accounts and a transaction exist
C16_Witness ==
    /\ last = [op |-> "transferBalanceBetweenBooks", err |-> "ValidationError"]
    /\ Cardinality(books) = 2
    /\ transactions # {}

\* debits less credits of an account over the transactions of a book
RawBalance(db, bookId, accountId) == accountBalance(getTransactions(db, bookId), accountId)

Signed(amount, type) == IF type = "debit" THEN amount ELSE 0 - amount

\* the accounts a transfer may land on: the one picked, or those of the target
\* book named like the source account
ResolvedTargets(db, targetBookId, sourceAccountName, targetAccountId) ==
    IF targetAccountId # NULL THEN {targetAccountId}
    ELSE {x.id : x \in {y \in db.accounts : /\ y.book_id = targetBookId
                                             /\ ~IsObeId(y.id)
                                             /\ Lower(y.name) = Lower(sourceAccountName)}}

\* C17 as stated: after a successful transferBalanceBetweenBooks of amount a
\* with balance type t, the source account's raw balance has moved toward zero
\* by exactly a, the target account's raw balance has moved by exactly a in
\* direction t, and the sum of the two raw balances is unchanged.
C17_TransferMovesTowardZero ==
    ids.txn + 2 <= TxnSlots =>
    \A a \in {x \in accounts : ~IsObeId(x.id)} :
    \A target \in BookIds, amount \in AmountInputs, type \in {"debit", "credit"} :
    \A targetAccountId \in TargetAccountInputs(Db, target) :
        LET r == transferBalanceBetweenBooks(Db, a.book_id, target, a.id, a.name,
                                             a.category_id, amount, type, targetAccountId)
            before == RawBalance(Db, a.book_id, a.id)
            after == RawBalance(r.db, a.book_id, a.id)
        IN r.err = "ok" =>
             /\ Abs(after) = Abs(before) - amount
             /\ \A x \in ResolvedTargets(r.db, target, a.name, targetAccountId) :
                  /\ RawBalance(r.db, target, x) = RawBalance(Db, target, x) + Signed(amount, type)
                  /\ after + RawBalance(r.db, target, x) = before + RawBalance(Db, target, x)

\* C17, amended: after a successful transferBalanceBetweenBooks of amount a with
\* balance type t between accounts other than the Opening Balance Equity
\* accounts, the source account's raw balance has changed by exactly a against
\* direction t (toward zero by a when the balance lies on side t and is at
\* least a), the target account's raw balance has moved by exactly a in
\* direction t, and the sum of the two raw balances is unchanged.
C17_TransferConservesBalance ==
    ids.txn + 2 <= TxnSlots =>
    \A a \in {x \in accounts : ~IsObeId(x.id)} :
    \A target \in BookIds, amount \in AmountInputs, type \in {"debit", "credit"} :
    \A targetAccountId \in TargetAccountInputs(Db, target) :
        LET r == transferBalanceBetweenBooks(Db, a.book_id, target, a.id, a.name,
                                             a.category_id, amount, type, targetAccountId)
            before == RawBalance(Db, a.book_id, a.id)
            after == RawBalance(r.db, a.book_id, a.id)
        IN r.err = "ok" =>
             /\ after = before - Signed(amount, type)
             /\ (Signed(1, type) * before >= amount) => Abs(after) = Abs(before) - amount
             /\ ResolvedTargets(r.db, target, a.name, targetAccountId) # {}
             /\ \A x \in ResolvedTargets(r.db, target, a.name, targetAccountId) :
                  /\ RawBalance(r.db, target, x) = RawBalance(Db, target, x) + Signed(amount, type)
                  /\ after + RawBalance(r.db, target, x) = before + RawBalance(Db, target, x)

\* a whole balance was carried over: the source account is back at zero and an
\* account of another book holds the amount
C17_Witness ==
    /\ last = [op |-> "transferBalanceBetweenBooks", err |-> "ok"]
    /\ \E a \in accounts, x \in accounts :
         /\ ~IsObeId(a.id) /\ ~IsObeId(x.id) /\ a.book_id # x.book_id
         /\ Cardinality({t \in transactions : t.book_id = a.book_id}) = 2
         /\ RawBalance(Db, a.book_id, a.id) = 0
         /\ Abs(RawBalance(Db, x.book_id, x.id)) = MaxAmount

\* the categories, accounts and transactions of one book
BookContent(db, bookId) ==
    [ categories |-> {c \in db.categories : c.book_id = bookId},
      accounts |-> {a \in db.accounts : a.book_id = bookId},
      transactions |-> getTransactions(db, bookId) ]

\* tx is the opening balance of an account of the book named like accountName,
\* set against the equity account of the book
OpensInTarget(db, tx, targetBookId, accountName, amount, type) ==
    /\ Len(tx.entries) = 2
    /\ \E x \in db.accounts :
         /\ x.book_id = targetBookId /\ ~IsObeId(x.id)
         /\ Lower(x.name) = Lower(accountName)
         /\ tx.entries[1].accountId = x.id
    /\ tx.entries[1].amount = amount /\ tx.entries[1].type = type
    /\ tx.entries[2].accountId = ObeId(targetBookId)
    /\ tx.entries[2].amount = amount /\ tx.entries[2].type = InverseType(type)

\* C18: transferOpeningBalance leaves the source book unchanged (its categories,
\* accounts and transactions are the same before and after) and creates exactly
\* one transaction in the target book, with one entry on the resolved-or-created
\* same-named target account and the inverse entry on the target book's Opening
\* Balance Equity account.
C18_TransferOpeningBalanceFrame ==
    ids.txn < TxnSlots =>
    \A a \in {x \in accounts : ~IsObeId(x.id)} :
    \A target \in BookIds, type \in {"debit", "credit"} :
        LET r == transferOpeningBalance(Db, a.book_id, target, a.id, a.name, a.category_id,
                                        MaxAmount, type)
            created == getTransactions(r.db, target) \ getTransactions(Db, target)
        IN r.err = "ok" =>
             /\ BookContent(r.db, a.book_id) = BookContent(Db, a.book_id)
             /\ getTransactions(Db, target) \subseteq getTransactions(r.db, target)
             /\ Cardinality(created) = 1
             /\ \A tx \in created : OpensInTarget(r.db, tx, target, a.name, MaxAmount, type)

\* ------------------------------------------------- claims, opening balances
\* the side updateAccount posts: the one supplied, else the stored one, else debit
PostedType(row, data) ==
    IF data.openingBalanceType # NULL THEN data.openingBalanceType
    ELSE IF row.opening_balance_type # NULL THEN row.opening_balance_type
    ELSE "debit"

NameAfter(row, data) == IF data.name # NULL THEN data.name ELSE row.name

TxIds(db, bookId) == {t.id : t \in {x \in db.transactions : x.book_id = bookId}}

\* C21: when an account already has an opening-balance transaction and
\* updateAccount supplies a new balance > 0, the existing transaction keeps its
\* id, has its entries replaced by [{account, new balance, type}, {OBE, new
\* balance, inverse type}] and its description set to 'Opening Balance for
\* <current name>'; no transaction is added, so an account with one
\* opening-balance transaction still has exactly one.
C21_UpdateToNonzero ==
    ids.txn < TxnSlots =>
    \A a \in {x \in accounts : ~IsObeId(x.id)}, data \in OpeningUpdateInputs :
        LET before == OpeningBalanceTxs(getTransactions(Db, a.book_id), a)
            r == updateAccount(Db, a.book_id, a.id, data)
            txs == getTransactions(r.db, a.book_id)
            rewritten(tx) ==
                /\ tx.description = OpeningBalanceDescription(NameAfter(a, data))
                /\ tx.entries = OpeningBalanceEntries(a.id, ObeId(a.book_id), data.openingBalance,
                                                      PostedType(a, data))
        IN (before # {} /\ data.openingBalance > 0 /\ r.err = "ok") =>
             /\ TxIds(r.db, a.book_id) = TxIds(Db, a.book_id)
             /\ \E old \in before : \E tx \in txs :
                   tx.id = old.id /\ tx.date = old.date /\ rewritten(tx)
             /\ Cardinality(before) = 1 =>
                  Cardinality({tx \in RelatedTransactions(txs, a.id) :
                      tx.description = OpeningBalanceDescription(NameAfter(a, data))}) = 1

\* the opening balance of a renamed account was rewritten in place
C21_Witness ==
    /\ last = [op |-> "updateAccount", err |-> "ok"]
    /\ \E a \in accounts : \E tx \in getTransactions(Db, a.book_id) :
         /\ a.name = "bank" /\ a.opening_balance = 1 /\ a.opening_balance_type = "credit"
         /\ tx.description = OpeningBalanceDescription("bank")
         /\ tx.entries = OpeningBalanceEntries(a.id, ObeId(a.book_id), 1, "credit")
         /\ ids.txn = 1 /\ recycle_bin = {}

\* C22: when an account has an opening-balance transaction and updateAccount
\* sets the opening balance to 0, that transaction is deleted through the
\* transaction delete operation: it leaves primary storage, appears in the
\* recycle bin, and the account's computed balance no longer includes it.
C22_UpdateToZero ==
    ids.txn < TxnSlots =>
    \A a \in {x \in accounts : ~IsObeId(x.id)}, data \in OpeningUpdateInputs :
        LET txsBefore == getTransactions(Db, a.book_id)
            before == OpeningBalanceTxs(txsBefore, a)
            r == updateAccount(Db, a.book_id, a.id, data)
            txs == getTransactions(r.db, a.book_id)
        IN (before # {} /\ data.openingBalance = 0 /\ r.err = "ok") =>
             \E old \in before :
                /\ txs = txsBefore \ {old}
                /\ \A t \in r.db.transactions : t.id # old.id
                /\ r.db.transaction_entries[old.id] = <<>>
                /\ Binned(r.db, "transaction", old.id)
                /\ accountBalance(txs, a.id) =
                       accountBalance(txsBefore, a.id) - accountBalance({old}, a.id)

\* the opening balance of an account was set to zero: the account is left
\* without transactions and its opening transaction is in the recycle bin
C22_Witness ==
    /\ last = [op |-> "updateAccount", err |-> "ok"]
    /\ \E a \in accounts :
         /\ ~IsObeId(a.id) /\ a.opening_balance = 0
         /\ RelatedTransactions(getTransactions(Db, a.book_id), a.id) = {}
         /\ Binned(Db, "transaction", generateId("txn", 1))

\* C23: when an account with an opening-balance transaction is renamed through
\* updateAccount without a balance change, only the transaction's description
\* changes (to 'Opening Balance for <new name>'); its id, date and entries
\* (accounts, amounts, types) are exactly what they were before the rename.
C23_RenameOnly ==
    ids.txn < TxnSlots =>
    \A a \in {x \in accounts : ~IsObeId(x.id)}, data \in OpeningUpdateInputs :
        LET before == OpeningBalanceTxs(getTransactions(Db, a.book_id), a)
            r == updateAccount(Db, a.book_id, a.id, data)
            txs == getTransactions(r.db, a.book_id)
        IN (/\ before # {}
            /\ data.name # NULL /\ data.name # a.name
            /\ data.openingBalance = NoBalance /\ data.openingBalanceType = NULL
            /\ r.err = "ok") =>
             /\ TxIds(r.db, a.book_id) = TxIds(Db, a.book_id)
             /\ \E old \in before :
                   [old EXCEPT !.description = OpeningBalanceDescription(data.name)] \in txs

\* C29: updateAccount called without an openingBalance field never creates and
\* never deletes a transaction: the set of transaction ids in the book is the
\* same before and after, whatever opening balance is stored on the account row
\* and whether or not an opening-balance transaction exists.
C29_NoBalanceNoTransactionChange ==
    ids.txn < TxnSlots =>
    \A a \in {x \in accounts : ~IsObeId(x.id)}, data \in OpeningUpdateInputs :
        LET r == updateAccount(Db, a.book_id, a.id, data)
        IN data.openingBalance = NoBalance => TxIds(r.db, a.book_id) = TxIds(Db, a.book_id)

\* ----------------------------------------------- claims, transfers that fail
\* C24: transferBalanceBetweenBooks with an explicit targetAccountId that does
\* not exist in the target book fails with NotFoundError, and the source-book
\* transaction is not rolled back: after the failure the source book holds the
\* 'Transfer to ...' transaction while the target book holds no corresponding
\* transaction.
C24_MissingTargetLeavesSourceWritten ==
    ids.txn + 2 <= TxnSlots =>
    \A a \in {x \in accounts : ~IsObeId(x.id)}, targetAccountId \in AccountIdInputs :
    \A target \in BookIds \ {a.book_id}, amount \in AmountInputs \ {0}, type \in {"debit", "credit"} :
        LET r == transferBalanceBetweenBooks(Db, a.book_id, target, a.id, a.name,
                                             a.category_id, amount, type, targetAccountId)
            written == getTransactions(r.db, a.book_id) \ getTransactions(Db, a.book_id)
            targetName == IF \E b \in books : b.id = target
                          THEN (CHOOSE b \in books : b.id = target).name ELSE "Other book"
        IN (\A x \in accounts : ~(x.id = targetAccountId /\ x.book_id = target)) =>
             /\ r.err = "NotFoundError"
             /\ Cardinality(written) = 1
             /\ \A tx \in written :
                  /\ tx.description = "Transfer to " \o targetName
                  /\ tx.entries = OpeningBalanceEntries(a.id, ObeId(a.book_id), amount,
                                                        InverseType(type))
             /\ getTransactions(r.db, target) = getTransactions(Db, target)

\* a transfer named an account the target book does not hold: the source book
\* has its transfer transaction, the other book has neither account nor
\* transaction
C24_Witness ==
    /\ last = [op |-> "transferBalanceBetweenBooks", err |-> "NotFoundError"]
    /\ Cardinality(books) = 2
    /\ \A a \in accounts : a.book_id = DEFAULT_BOOK_ID \/ IsObeId(a.id)
    /\ \E t \in transactions :
          t.book_id = DEFAULT_BOOK_ID /\ t.description = "Transfer to Side"
    /\ \A t \in transactions : t.book_id = DEFAULT_BOOK_ID

\* ---------------------------------------------------------- claims, create
\* C25: transaction create is atomic with respect to header and entries: at no
\* state observable by an interleaved read, and after no failure of either
\* write, does primary storage hold a transaction header without exactly the
\* entries supplied to create.
C25_CreateIsAtomic ==
    \A t \in transactions :
        mapEntries(transaction_entries[t.id]) = creating.supplied[t.id]

\* ----------------------------------------------------- claims, soft delete
\* the books, categories, accounts and transactions of primary storage and of
\* the recycle bin, by type and id
Entities(db) ==
    {<<"book", b.id>> : b \in db.books} \cup {<<"category", c.id>> : c \in db.categories}
    \cup {<<"account", a.id>> : a \in db.accounts}
    \cup {<<"transaction", t.id>> : t \in db.transactions}
    \cup {<<item.type, item.id>> : item \in getRecycleBinItems(db)}

Kept(db, e) == InPrimary(db, [type |-> e[1], id |-> e[2]]) \/ Binned(db, e[1], e[2])

\* whatever the call did and however it ended, nothing went missing
NothingLost(r) == \A e \in Entities(Db) : Kept(r.db, e)

\* C26: no soft-deleted entity is ever lost: after every delete and restore of a
\* transaction, account, category or book, also one that fails at a later
\* step, each entity that was in primary storage or in the recycle bin is in
\* primary storage or in the recycle bin (the bin insertion precedes the primary
\* removal and the primary re-insertion precedes the bin removal).
C26_NothingLost ==
    /\ \A b \in BookIds, id \in TxnIds : NothingLost(deleteTransaction(Db, b, id))
    /\ \A b \in BookIds, id \in AccountIdInputs : NothingLost(deleteAccount(Db, b, id))
    /\ \A b \in BookIds, id \in CategoryIdInputs : NothingLost(deleteCategory(Db, b, id))
    /\ \A b \in BookIds, restrictFirst \in BOOLEAN : NothingLost(deleteBook(Db, b, restrictFirst))
    /\ \A item \in getRecycleBinItems(Db) : NothingLost(restoreItem(Db, item))

\* a delete of a book was rejected after its recycle-bin write, while an earlier
\* delete of an account left the account and its opening transaction in the bin
C26_Witness ==
    /\ last = [op |-> "deleteBook", err |-> "StorageError"]
    /\ \E b \in books : b.id # DEFAULT_BOOK_ID /\ Binned(Db, "book", b.id)
    /\ \E e \in Entities(Db) : e[1] = "account" /\ ~InPrimary(Db, [type |-> e[1], id |-> e[2]])
    /\ \E e \in Entities(Db) : e[1] = "transaction" /\ ~InPrimary(Db, [type |-> e[1], id |-> e[2]])

\* ------------------------------------------------- claims, book isolation
\* the call left the categories, accounts, transactions and entries of every
\* book other than bookId as they were
OtherBooksUntouched(r, bookId) ==
    \A other \in BookIds \ {bookId} : BookContent(r.db, other) = BookContent(Db, other)

\* C27: an operation invoked with book identifier b (updateTransaction,
\* setHighlight, deleteTransaction, deleteCategory, deleteAccount,
\* deleteMultipleAccounts) never creates, modifies or removes a category,
\* account, transaction or transaction entry whose bookId is different from b,
\* even when it is passed the id of an entity that belongs to another book.
C27_BookIsolation ==
    \A b \in BookIds :
        /\ \A id \in TxnIds, e \in EntryListInputs(b) :
              OtherBooksUntouched(updateTransaction(Db, b, id, TransactionOf(e)), b)
        /\ \A id \in TxnIds, h \in {NULL, "yellow"} :
              OtherBooksUntouched(updateTransactionHighlight(Db, b, id, h), b)
        /\ \A id \in TxnIds : OtherBooksUntouched(deleteTransaction(Db, b, id), b)
        /\ \A id \in CategoryIdInputs \cup {c.id : c \in categories} :
              OtherBooksUntouched(deleteCategory(Db, b, id), b)
        /\ \A id \in AccountIdInputs : OtherBooksUntouched(deleteAccount(Db, b, id), b)
        /\ \A idList \in IdListInputs(AccountIdInputs) :
              OtherBooksUntouched(deleteMultipleAccounts(Db, b, idList), b)

\* --------------------------------------------- claims, deleting many accounts
\* C28: deleteMultipleAccounts is all-or-nothing: if it fails for any listed
\* account (account missing, system account, or account with transactions other
\* than its opening balance), then no account and no opening-balance transaction
\* of any listed account has been removed from primary storage or added to the
\* recycle bin.
C28_DeleteManyAllOrNothing ==
    \A b \in BookIds, idList \in IdListInputs(AccountIdInputs) :
        LET r == deleteMultipleAccounts(Db, b, idList)
        IN r.err \in {"NotFoundError", "ProtectedEntityError", "InvariantError"} =>
              /\ r.db.accounts = accounts
              /\ Stored(r.db) = Stored(Db)
              /\ r.db.recycle_bin = recycle_bin

\* ------------------------------------------- claims, referential integrity
\* C30: in every reachable state, after any sequence of create, delete, restore,
\* purge and transfer operations, every account in primary storage refers to a
\* category that exists in primary storage in the same book, and every entry of
\* every transaction in primary storage refers to an account that exists in
\* primary storage in the transaction's book.
C30_ReferentialIntegrity ==
    /\ \A a \in accounts :
          \E c \in categories : c.id = a.category_id /\ c.book_id = a.book_id
    /\ \A t \in transactions : \A i \in 1..Len(transaction_entries[t.id]) :
          \E a \in accounts :
              a.id = transaction_entries[t.id][i].account_id /\ a.book_id = t.book_id

====
